---- MODULE Spec2Model ----
(***************************************************************************)
(* A model of aichat's models.dev catalog (src/client/models_dev.rs) and   *)
(* of the tool-call loop of src/main.rs.                                   *)
(*                                                                         *)
(*   Spec      concurrent get_models_dev / clear_cache calls on the        *)
(*             process-wide CACHE, with a wall clock and a remote server   *)
(*   SpecSeq   the same operations, one call at a time, fetches succeed    *)
(*   SpecLoop  start_directive: the recursive tool-call loop               *)
(*   SpecPure  the pure functions, applied to inputs drawn by Init         *)
(*   SpecClear the sequential calls with clear_cache between them          *)
(*   SpecRun   run, on a parsed command line                               *)
(*   SpecShell shell_execute                                               *)
(*                                                                         *)
(* Option<T> is a sequence: None is <<>> and Some(v) is <<v>>.  A Rust     *)
(* String whose characters matter is the sequence of its chars, each a     *)
(* code point.                                                             *)
(***************************************************************************)
EXTENDS Integers, Sequences, FiniteSets, TLC

VARIABLES
    \* ---- models_dev.rs: the cache, its mutex, the clock, the callers
    CACHE,            \* Option<CachedData>: <<>> or <<[data, fetched_at]>>
    lock,             \* holder of the CACHE mutex: "free" or a caller
    now,              \* SystemTime::now(), in seconds
    pc,               \* position of each get_models_dev caller
    response,         \* local `response` of each caller: Option<document>
    provider_models,  \* local `provider_models` of each caller
    result,           \* what each caller's last call returned
    fetches,          \* HTTP GET requests the remote server has received
    \* ---- main.rs: start_directive
    dpc,              \* position inside the innermost start_directive frame
    depth,            \* number of start_directive frames on the stack
    input,            \* the Input of the innermost frame (conversation so far)
    output,           \* local `output`
    tool_results,     \* local `tool_results`
    output_format,    \* the OutputFormat passed down the recursion
    stdout_terminal,  \* *IS_STDOUT_TERMINAL
    stream,           \* input.stream()
    completions,      \* completion calls issued so far, each with its Input
    recorded,         \* after_chat_completion calls so far, each with its arguments
    error,            \* Option: the `?` that ended start_directive with an Err
    \* ---- pure functions
    arg,              \* the input drawn for the function under study
    ret,              \* Option of its return value
    \* ---- models_dev.rs: clear_cache
    cleared_at,       \* Option: what was noted when clear_cache last ran
    \* ---- main.rs: run
    cli,              \* the parsed command line (Cli)
    rpc,              \* position inside run
    run_format,       \* Option: local output_format of run
    effects,          \* what run has done so far, in order
    run_ret,          \* Option: the Result run returned
    \* ---- main.rs: shell_execute
    spc,              \* position inside the innermost shell_execute frame
    sdepth,           \* number of shell_execute frames entered so far
    shell_input,      \* input.text() of the innermost frame
    eval_str,         \* local eval_str: the generated command
    dry_run,          \* config.read().dry_run
    answer_char,      \* Option: the last key read at the prompt
    executed,         \* the commands run_command has run, with their exit codes
    events,           \* the other calls made so far, in order
    shell_ret         \* Option: the Result shell_execute returned

cacheVars == <<CACHE, lock, now, pc, response, provider_models, result, fetches>>
loopVars  == <<dpc, depth, input, output, tool_results, output_format,
               stdout_terminal, stream, completions, recorded, error>>
pureVars  == <<arg, ret>>
runVars   == <<cli, rpc, run_format, effects, run_ret>>
shellVars == <<spc, sdepth, shell_input, eval_str, dry_run, answer_char,
               executed, events, shell_ret>>
extVars   == <<cleared_at, runVars, shellVars>>
vars      == <<cacheVars, loopVars, pureVars, extVars>>

None == <<>>
Some(v) == <<v>>
IsSome(o) == o # <<>>
Unwrap(o) == o[1]

Range(s) == {s[i] : i \in 1..Len(s)}

(***************************************************************************)
(* Bounds of the model.                                                    *)
(***************************************************************************)
MaxFetches == 3
MaxTime == 7201
MaxDepth == 3
MaxLineLen == 4
MaxRevisions == 2
MaxExplains == 2
MaxOptions == 2

(***************************************************************************)
(* Strings.  A Rust char is a Unicode scalar value and is written as its   *)
(* code point; a string is the sequence of its chars.                      *)
(***************************************************************************)
\* the code point of a printable ASCII character, U+0020 to U+007E: its
\* place in code-point order; the backquote, U+0060, cannot stand in a TLA+
\* string and is spelled out
Ord ==
    LET printable ==
        <<" ","!","\"","#","$","%","&","'","(",")","*","+",",","-",".","/",
          "0","1","2","3","4","5","6","7","8","9",":",";","<","=",">","?",
          "@","A","B","C","D","E","F","G","H","I","J","K","L","M","N","O",
          "P","Q","R","S","T","U","V","W","X","Y","Z","[","\\","]","^","_",
          "backquote","a","b","c","d","e","f","g","h","i","j","k","l","m","n","o",
          "p","q","r","s","t","u","v","w","x","y","z","{","|","}","~">>
    IN  [c \in Range(printable) |->
            31 + CHOOSE i \in 1..Len(printable) : printable[i] = c]

\* a string literal of printable ASCII characters
Str(s) == [i \in 1..Len(s) |-> Ord[s[i]]]

\* '\n'
LF == 10

\* core::unicode::conversions LOWERCASE_TABLE (Unicode 17.0), the chars
\* outside ASCII with a one-char lowercase mapping: <<first, last, step,
\* delta>> maps first, first + step, ..., last to themselves plus delta
LowercaseTable ==
    { <<192, 214, 1, 32>>, <<216, 222, 1, 32>>, <<256, 302, 2, 1>>, <<306, 310, 2, 1>>,
      <<313, 327, 2, 1>>, <<330, 374, 2, 1>>, <<376, 376, 1, -121>>, <<377, 381, 2, 1>>,
      <<385, 385, 1, 210>>, <<386, 388, 2, 1>>, <<390, 390, 1, 206>>, <<391, 391, 1, 1>>,
      <<393, 394, 1, 205>>, <<395, 395, 1, 1>>, <<398, 398, 1, 79>>, <<399, 399, 1, 202>>,
      <<400, 400, 1, 203>>, <<401, 401, 1, 1>>, <<403, 403, 1, 205>>, <<404, 404, 1, 207>>,
      <<406, 406, 1, 211>>, <<407, 407, 1, 209>>, <<408, 408, 1, 1>>, <<412, 412, 1, 211>>,
      <<413, 413, 1, 213>>, <<415, 415, 1, 214>>, <<416, 420, 2, 1>>, <<422, 422, 1, 218>>,
      <<423, 423, 1, 1>>, <<425, 425, 1, 218>>, <<428, 428, 1, 1>>, <<430, 430, 1, 218>>,
      <<431, 431, 1, 1>>, <<433, 434, 1, 217>>, <<435, 437, 2, 1>>, <<439, 439, 1, 219>>,
      <<440, 440, 1, 1>>, <<444, 444, 1, 1>>, <<452, 452, 1, 2>>, <<453, 453, 1, 1>>,
      <<455, 455, 1, 2>>, <<456, 456, 1, 1>>, <<458, 458, 1, 2>>, <<459, 475, 2, 1>>,
      <<478, 494, 2, 1>>, <<497, 497, 1, 2>>, <<498, 500, 2, 1>>, <<502, 502, 1, -97>>,
      <<503, 503, 1, -56>>, <<504, 542, 2, 1>>, <<544, 544, 1, -130>>, <<546, 562, 2, 1>>,
      <<570, 570, 1, 10795>>, <<571, 571, 1, 1>>, <<573, 573, 1, -163>>, <<574, 574, 1, 10792>>,
      <<577, 577, 1, 1>>, <<579, 579, 1, -195>>, <<580, 580, 1, 69>>, <<581, 581, 1, 71>>,
      <<582, 590, 2, 1>>, <<880, 882, 2, 1>>, <<886, 886, 1, 1>>, <<895, 895, 1, 116>>,
      <<902, 902, 1, 38>>, <<904, 906, 1, 37>>, <<908, 908, 1, 64>>, <<910, 911, 1, 63>>,
      <<913, 929, 1, 32>>, <<931, 939, 1, 32>>, <<975, 975, 1, 8>>, <<984, 1006, 2, 1>>,
      <<1012, 1012, 1, -60>>, <<1015, 1015, 1, 1>>, <<1017, 1017, 1, -7>>, <<1018, 1018, 1, 1>>,
      <<1021, 1023, 1, -130>>, <<1024, 1039, 1, 80>>, <<1040, 1071, 1, 32>>, <<1120, 1152, 2, 1>>,
      <<1162, 1214, 2, 1>>, <<1216, 1216, 1, 15>>, <<1217, 1229, 2, 1>>, <<1232, 1326, 2, 1>>,
      <<1329, 1366, 1, 48>>, <<4256, 4293, 1, 7264>>, <<4295, 4295, 1, 7264>>, <<4301, 4301, 1, 7264>>,
      <<5024, 5103, 1, 38864>>, <<5104, 5109, 1, 8>>, <<7305, 7305, 1, 1>>, <<7312, 7354, 1, -3008>>,
      <<7357, 7359, 1, -3008>>, <<7680, 7828, 2, 1>>, <<7838, 7838, 1, -7615>>, <<7840, 7934, 2, 1>>,
      <<7944, 7951, 1, -8>>, <<7960, 7965, 1, -8>>, <<7976, 7983, 1, -8>>, <<7992, 7999, 1, -8>>,
      <<8008, 8013, 1, -8>>, <<8025, 8031, 2, -8>>, <<8040, 8047, 1, -8>>, <<8072, 8079, 1, -8>>,
      <<8088, 8095, 1, -8>>, <<8104, 8111, 1, -8>>, <<8120, 8121, 1, -8>>, <<8122, 8123, 1, -74>>,
      <<8124, 8124, 1, -9>>, <<8136, 8139, 1, -86>>, <<8140, 8140, 1, -9>>, <<8152, 8153, 1, -8>>,
      <<8154, 8155, 1, -100>>, <<8168, 8169, 1, -8>>, <<8170, 8171, 1, -112>>, <<8172, 8172, 1, -7>>,
      <<8184, 8185, 1, -128>>, <<8186, 8187, 1, -126>>, <<8188, 8188, 1, -9>>, <<8486, 8486, 1, -7517>>,
      <<8490, 8490, 1, -8383>>, <<8491, 8491, 1, -8262>>, <<8498, 8498, 1, 28>>, <<8544, 8559, 1, 16>>,
      <<8579, 8579, 1, 1>>, <<9398, 9423, 1, 26>>, <<11264, 11311, 1, 48>>, <<11360, 11360, 1, 1>>,
      <<11362, 11362, 1, -10743>>, <<11363, 11363, 1, -3814>>, <<11364, 11364, 1, -10727>>, <<11367, 11371, 2, 1>>,
      <<11373, 11373, 1, -10780>>, <<11374, 11374, 1, -10749>>, <<11375, 11375, 1, -10783>>, <<11376, 11376, 1, -10782>>,
      <<11378, 11378, 1, 1>>, <<11381, 11381, 1, 1>>, <<11390, 11391, 1, -10815>>, <<11392, 11490, 2, 1>>,
      <<11499, 11501, 2, 1>>, <<11506, 11506, 1, 1>>, <<42560, 42604, 2, 1>>, <<42624, 42650, 2, 1>>,
      <<42786, 42798, 2, 1>>, <<42802, 42862, 2, 1>>, <<42873, 42875, 2, 1>>, <<42877, 42877, 1, -35332>>,
      <<42878, 42886, 2, 1>>, <<42891, 42891, 1, 1>>, <<42893, 42893, 1, -42280>>, <<42896, 42898, 2, 1>>,
      <<42902, 42920, 2, 1>>, <<42922, 42922, 1, -42308>>, <<42923, 42923, 1, -42319>>, <<42924, 42924, 1, -42315>>,
      <<42925, 42925, 1, -42305>>, <<42926, 42926, 1, -42308>>, <<42928, 42928, 1, -42258>>, <<42929, 42929, 1, -42282>>,
      <<42930, 42930, 1, -42261>>, <<42931, 42931, 1, 928>>, <<42932, 42946, 2, 1>>, <<42948, 42948, 1, -48>>,
      <<42949, 42949, 1, -42307>>, <<42950, 42950, 1, -35384>>, <<42951, 42953, 2, 1>>, <<42955, 42955, 1, -42343>>,
      <<42956, 42970, 2, 1>>, <<42972, 42972, 1, -42561>>, <<42997, 42997, 1, 1>>, <<65313, 65338, 1, 32>>,
      <<66560, 66599, 1, 40>>, <<66736, 66771, 1, 40>>, <<66928, 66938, 1, 39>>, <<66940, 66954, 1, 39>>,
      <<66956, 66962, 1, 39>>, <<66964, 66965, 1, 39>>, <<68736, 68786, 1, 64>>, <<68944, 68965, 1, 32>>,
      <<71840, 71871, 1, 32>>, <<93760, 93791, 1, 32>>, <<93856, 93880, 1, 27>>, <<125184, 125217, 1, 34>> }

\* core::unicode::Cased (Unicode 17.0): c lies in a range <<first, last>>
Cased(c) ==
    \E r \in
        { <<65, 90>>, <<97, 122>>, <<170, 170>>, <<181, 181>>, <<186, 186>>, <<192, 214>>,
          <<216, 246>>, <<248, 442>>, <<444, 447>>, <<452, 659>>, <<662, 696>>, <<704, 705>>,
          <<736, 740>>, <<837, 837>>, <<880, 883>>, <<886, 887>>, <<890, 893>>, <<895, 895>>,
          <<902, 902>>, <<904, 906>>, <<908, 908>>, <<910, 929>>, <<931, 1013>>, <<1015, 1153>>,
          <<1162, 1327>>, <<1329, 1366>>, <<1376, 1416>>, <<4256, 4293>>, <<4295, 4295>>, <<4301, 4301>>,
          <<4304, 4346>>, <<4348, 4351>>, <<5024, 5109>>, <<5112, 5117>>, <<7296, 7306>>, <<7312, 7354>>,
          <<7357, 7359>>, <<7424, 7615>>, <<7680, 7957>>, <<7960, 7965>>, <<7968, 8005>>, <<8008, 8013>>,
          <<8016, 8023>>, <<8025, 8025>>, <<8027, 8027>>, <<8029, 8029>>, <<8031, 8061>>, <<8064, 8116>>,
          <<8118, 8124>>, <<8126, 8126>>, <<8130, 8132>>, <<8134, 8140>>, <<8144, 8147>>, <<8150, 8155>>,
          <<8160, 8172>>, <<8178, 8180>>, <<8182, 8188>>, <<8305, 8305>>, <<8319, 8319>>, <<8336, 8348>>,
          <<8450, 8450>>, <<8455, 8455>>, <<8458, 8467>>, <<8469, 8469>>, <<8473, 8477>>, <<8484, 8484>>,
          <<8486, 8486>>, <<8488, 8488>>, <<8490, 8493>>, <<8495, 8500>>, <<8505, 8505>>, <<8508, 8511>>,
          <<8517, 8521>>, <<8526, 8526>>, <<8544, 8575>>, <<8579, 8580>>, <<9398, 9449>>, <<11264, 11492>>,
          <<11499, 11502>>, <<11506, 11507>>, <<11520, 11557>>, <<11559, 11559>>, <<11565, 11565>>, <<42560, 42605>>,
          <<42624, 42653>>, <<42786, 42887>>, <<42891, 42894>>, <<42896, 42972>>, <<42993, 42998>>, <<43000, 43002>>,
          <<43824, 43866>>, <<43868, 43881>>, <<43888, 43967>>, <<64256, 64262>>, <<64275, 64279>>, <<65313, 65338>>,
          <<65345, 65370>>, <<66560, 66639>>, <<66736, 66771>>, <<66776, 66811>>, <<66928, 66938>>, <<66940, 66954>>,
          <<66956, 66962>>, <<66964, 66965>>, <<66967, 66977>>, <<66979, 66993>>, <<66995, 67001>>, <<67003, 67004>>,
          <<67456, 67456>>, <<67459, 67461>>, <<67463, 67504>>, <<67506, 67514>>, <<68736, 68786>>, <<68800, 68850>>,
          <<68944, 68965>>, <<68976, 68997>>, <<71840, 71903>>, <<93760, 93823>>, <<93856, 93880>>, <<93883, 93907>>,
          <<119808, 119892>>, <<119894, 119964>>, <<119966, 119967>>, <<119970, 119970>>, <<119973, 119974>>, <<119977, 119980>>,
          <<119982, 119993>>, <<119995, 119995>>, <<119997, 120003>>, <<120005, 120069>>, <<120071, 120074>>, <<120077, 120084>>,
          <<120086, 120092>>, <<120094, 120121>>, <<120123, 120126>>, <<120128, 120132>>, <<120134, 120134>>, <<120138, 120144>>,
          <<120146, 120485>>, <<120488, 120512>>, <<120514, 120538>>, <<120540, 120570>>, <<120572, 120596>>, <<120598, 120628>>,
          <<120630, 120654>>, <<120656, 120686>>, <<120688, 120712>>, <<120714, 120744>>, <<120746, 120770>>, <<120772, 120779>>,
          <<122624, 122633>>, <<122635, 122654>>, <<122661, 122666>>, <<122928, 122989>>, <<125184, 125251>>, <<127280, 127305>>,
          <<127312, 127337>>, <<127344, 127369>> } :
        r[1] <= c /\ c <= r[2]

\* core::unicode::Case_Ignorable (Unicode 17.0): c lies in a range <<first,
\* last>>
Case_Ignorable(c) ==
    \E r \in
        { <<39, 39>>, <<46, 46>>, <<58, 58>>, <<94, 94>>, <<96, 96>>, <<168, 168>>,
          <<173, 173>>, <<175, 175>>, <<180, 180>>, <<183, 184>>, <<688, 879>>, <<884, 885>>,
          <<890, 890>>, <<900, 901>>, <<903, 903>>, <<1155, 1161>>, <<1369, 1369>>, <<1375, 1375>>,
          <<1425, 1469>>, <<1471, 1471>>, <<1473, 1474>>, <<1476, 1477>>, <<1479, 1479>>, <<1524, 1524>>,
          <<1536, 1541>>, <<1552, 1562>>, <<1564, 1564>>, <<1600, 1600>>, <<1611, 1631>>, <<1648, 1648>>,
          <<1750, 1757>>, <<1759, 1768>>, <<1770, 1773>>, <<1807, 1807>>, <<1809, 1809>>, <<1840, 1866>>,
          <<1958, 1968>>, <<2027, 2037>>, <<2042, 2042>>, <<2045, 2045>>, <<2070, 2093>>, <<2137, 2139>>,
          <<2184, 2184>>, <<2192, 2193>>, <<2199, 2207>>, <<2249, 2306>>, <<2362, 2362>>, <<2364, 2364>>,
          <<2369, 2376>>, <<2381, 2381>>, <<2385, 2391>>, <<2402, 2403>>, <<2417, 2417>>, <<2433, 2433>>,
          <<2492, 2492>>, <<2497, 2500>>, <<2509, 2509>>, <<2530, 2531>>, <<2558, 2558>>, <<2561, 2562>>,
          <<2620, 2620>>, <<2625, 2626>>, <<2631, 2632>>, <<2635, 2637>>, <<2641, 2641>>, <<2672, 2673>>,
          <<2677, 2677>>, <<2689, 2690>>, <<2748, 2748>>, <<2753, 2757>>, <<2759, 2760>>, <<2765, 2765>>,
          <<2786, 2787>>, <<2810, 2815>>, <<2817, 2817>>, <<2876, 2876>>, <<2879, 2879>>, <<2881, 2884>>,
          <<2893, 2893>>, <<2901, 2902>>, <<2914, 2915>>, <<2946, 2946>>, <<3008, 3008>>, <<3021, 3021>>,
          <<3072, 3072>>, <<3076, 3076>>, <<3132, 3132>>, <<3134, 3136>>, <<3142, 3144>>, <<3146, 3149>>,
          <<3157, 3158>>, <<3170, 3171>>, <<3201, 3201>>, <<3260, 3260>>, <<3263, 3263>>, <<3270, 3270>>,
          <<3276, 3277>>, <<3298, 3299>>, <<3328, 3329>>, <<3387, 3388>>, <<3393, 3396>>, <<3405, 3405>>,
          <<3426, 3427>>, <<3457, 3457>>, <<3530, 3530>>, <<3538, 3540>>, <<3542, 3542>>, <<3633, 3633>>,
          <<3636, 3642>>, <<3654, 3662>>, <<3761, 3761>>, <<3764, 3772>>, <<3782, 3782>>, <<3784, 3790>>,
          <<3864, 3865>>, <<3893, 3893>>, <<3895, 3895>>, <<3897, 3897>>, <<3953, 3966>>, <<3968, 3972>>,
          <<3974, 3975>>, <<3981, 3991>>, <<3993, 4028>>, <<4038, 4038>>, <<4141, 4144>>, <<4146, 4151>>,
          <<4153, 4154>>, <<4157, 4158>>, <<4184, 4185>>, <<4190, 4192>>, <<4209, 4212>>, <<4226, 4226>>,
          <<4229, 4230>>, <<4237, 4237>>, <<4253, 4253>>, <<4348, 4348>>, <<4957, 4959>>, <<5906, 5908>>,
          <<5938, 5939>>, <<5970, 5971>>, <<6002, 6003>>, <<6068, 6069>>, <<6071, 6077>>, <<6086, 6086>>,
          <<6089, 6099>>, <<6103, 6103>>, <<6109, 6109>>, <<6155, 6159>>, <<6211, 6211>>, <<6277, 6278>>,
          <<6313, 6313>>, <<6432, 6434>>, <<6439, 6440>>, <<6450, 6450>>, <<6457, 6459>>, <<6679, 6680>>,
          <<6683, 6683>>, <<6742, 6742>>, <<6744, 6750>>, <<6752, 6752>>, <<6754, 6754>>, <<6757, 6764>>,
          <<6771, 6780>>, <<6783, 6783>>, <<6823, 6823>>, <<6832, 6877>>, <<6880, 6891>>, <<6912, 6915>>,
          <<6964, 6964>>, <<6966, 6970>>, <<6972, 6972>>, <<6978, 6978>>, <<7019, 7027>>, <<7040, 7041>>,
          <<7074, 7077>>, <<7080, 7081>>, <<7083, 7085>>, <<7142, 7142>>, <<7144, 7145>>, <<7149, 7149>>,
          <<7151, 7153>>, <<7212, 7219>>, <<7222, 7223>>, <<7288, 7293>>, <<7376, 7378>>, <<7380, 7392>>,
          <<7394, 7400>>, <<7405, 7405>>, <<7412, 7412>>, <<7416, 7417>>, <<7468, 7530>>, <<7544, 7544>>,
          <<7579, 7679>>, <<8125, 8125>>, <<8127, 8129>>, <<8141, 8143>>, <<8157, 8159>>, <<8173, 8175>>,
          <<8189, 8190>>, <<8203, 8207>>, <<8216, 8217>>, <<8228, 8228>>, <<8231, 8231>>, <<8234, 8238>>,
          <<8288, 8292>>, <<8294, 8303>>, <<8305, 8305>>, <<8319, 8319>>, <<8336, 8348>>, <<8400, 8432>>,
          <<11388, 11389>>, <<11503, 11505>>, <<11631, 11631>>, <<11647, 11647>>, <<11744, 11775>>, <<11823, 11823>>,
          <<12293, 12293>>, <<12330, 12333>>, <<12337, 12341>>, <<12347, 12347>>, <<12441, 12446>>, <<12540, 12542>>,
          <<40981, 40981>>, <<42232, 42237>>, <<42508, 42508>>, <<42607, 42610>>, <<42612, 42621>>, <<42623, 42623>>,
          <<42652, 42655>>, <<42736, 42737>>, <<42752, 42785>>, <<42864, 42864>>, <<42888, 42890>>, <<42993, 42996>>,
          <<43000, 43001>>, <<43010, 43010>>, <<43014, 43014>>, <<43019, 43019>>, <<43045, 43046>>, <<43052, 43052>>,
          <<43204, 43205>>, <<43232, 43249>>, <<43263, 43263>>, <<43302, 43309>>, <<43335, 43345>>, <<43392, 43394>>,
          <<43443, 43443>>, <<43446, 43449>>, <<43452, 43453>>, <<43471, 43471>>, <<43493, 43494>>, <<43561, 43566>>,
          <<43569, 43570>>, <<43573, 43574>>, <<43587, 43587>>, <<43596, 43596>>, <<43632, 43632>>, <<43644, 43644>>,
          <<43696, 43696>>, <<43698, 43700>>, <<43703, 43704>>, <<43710, 43711>>, <<43713, 43713>>, <<43741, 43741>>,
          <<43756, 43757>>, <<43763, 43764>>, <<43766, 43766>>, <<43867, 43871>>, <<43881, 43883>>, <<44005, 44005>>,
          <<44008, 44008>>, <<44013, 44013>>, <<64286, 64286>>, <<64434, 64450>>, <<65024, 65039>>, <<65043, 65043>>,
          <<65056, 65071>>, <<65106, 65106>>, <<65109, 65109>>, <<65279, 65279>>, <<65287, 65287>>, <<65294, 65294>>,
          <<65306, 65306>>, <<65342, 65342>>, <<65344, 65344>>, <<65392, 65392>>, <<65438, 65439>>, <<65507, 65507>>,
          <<65529, 65531>>, <<66045, 66045>>, <<66272, 66272>>, <<66422, 66426>>, <<67456, 67461>>, <<67463, 67504>>,
          <<67506, 67514>>, <<68097, 68099>>, <<68101, 68102>>, <<68108, 68111>>, <<68152, 68154>>, <<68159, 68159>>,
          <<68325, 68326>>, <<68900, 68903>>, <<68942, 68942>>, <<68969, 68973>>, <<68975, 68975>>, <<69291, 69292>>,
          <<69317, 69317>>, <<69370, 69375>>, <<69446, 69456>>, <<69506, 69509>>, <<69633, 69633>>, <<69688, 69702>>,
          <<69744, 69744>>, <<69747, 69748>>, <<69759, 69761>>, <<69811, 69814>>, <<69817, 69818>>, <<69821, 69821>>,
          <<69826, 69826>>, <<69837, 69837>>, <<69888, 69890>>, <<69927, 69931>>, <<69933, 69940>>, <<70003, 70003>>,
          <<70016, 70017>>, <<70070, 70078>>, <<70089, 70092>>, <<70095, 70095>>, <<70191, 70193>>, <<70196, 70196>>,
          <<70198, 70199>>, <<70206, 70206>>, <<70209, 70209>>, <<70367, 70367>>, <<70371, 70378>>, <<70400, 70401>>,
          <<70459, 70460>>, <<70464, 70464>>, <<70502, 70508>>, <<70512, 70516>>, <<70587, 70592>>, <<70606, 70606>>,
          <<70608, 70608>>, <<70610, 70610>>, <<70625, 70626>>, <<70712, 70719>>, <<70722, 70724>>, <<70726, 70726>>,
          <<70750, 70750>>, <<70835, 70840>>, <<70842, 70842>>, <<70847, 70848>>, <<70850, 70851>>, <<71090, 71093>>,
          <<71100, 71101>>, <<71103, 71104>>, <<71132, 71133>>, <<71219, 71226>>, <<71229, 71229>>, <<71231, 71232>>,
          <<71339, 71339>>, <<71341, 71341>>, <<71344, 71349>>, <<71351, 71351>>, <<71453, 71453>>, <<71455, 71455>>,
          <<71458, 71461>>, <<71463, 71467>>, <<71727, 71735>>, <<71737, 71738>>, <<71995, 71996>>, <<71998, 71998>>,
          <<72003, 72003>>, <<72148, 72151>>, <<72154, 72155>>, <<72160, 72160>>, <<72193, 72202>>, <<72243, 72248>>,
          <<72251, 72254>>, <<72263, 72263>>, <<72273, 72278>>, <<72281, 72283>>, <<72330, 72342>>, <<72344, 72345>>,
          <<72544, 72544>>, <<72546, 72548>>, <<72550, 72550>>, <<72752, 72758>>, <<72760, 72765>>, <<72767, 72767>>,
          <<72850, 72871>>, <<72874, 72880>>, <<72882, 72883>>, <<72885, 72886>>, <<73009, 73014>>, <<73018, 73018>>,
          <<73020, 73021>>, <<73023, 73029>>, <<73031, 73031>>, <<73104, 73105>>, <<73109, 73109>>, <<73111, 73111>>,
          <<73177, 73177>>, <<73459, 73460>>, <<73472, 73473>>, <<73526, 73530>>, <<73536, 73536>>, <<73538, 73538>>,
          <<73562, 73562>>, <<78896, 78912>>, <<78919, 78933>>, <<90398, 90409>>, <<90413, 90415>>, <<92912, 92916>>,
          <<92976, 92982>>, <<92992, 92995>>, <<93504, 93506>>, <<93547, 93548>>, <<94031, 94031>>, <<94095, 94111>>,
          <<94176, 94177>>, <<94179, 94180>>, <<94194, 94195>>, <<110576, 110579>>, <<110581, 110587>>, <<110589, 110590>>,
          <<113821, 113822>>, <<113824, 113827>>, <<118528, 118573>>, <<118576, 118598>>, <<119143, 119145>>, <<119155, 119170>>,
          <<119173, 119179>>, <<119210, 119213>>, <<119362, 119364>>, <<121344, 121398>>, <<121403, 121452>>, <<121461, 121461>>,
          <<121476, 121476>>, <<121499, 121503>>, <<121505, 121519>>, <<122880, 122886>>, <<122888, 122904>>, <<122907, 122913>>,
          <<122915, 122916>>, <<122918, 122922>>, <<122928, 122989>>, <<123023, 123023>>, <<123184, 123197>>, <<123566, 123566>>,
          <<123628, 123631>>, <<124139, 124143>>, <<124398, 124399>>, <<124643, 124643>>, <<124646, 124646>>, <<124654, 124655>>,
          <<124661, 124661>>, <<124671, 124671>>, <<125136, 125142>>, <<125252, 125259>>, <<127995, 127999>>, <<917505, 917505>>,
          <<917536, 917631>>, <<917760, 917999>> } :
        r[1] <= c /\ c <= r[2]

\* u8::to_ascii_lowercase
to_ascii_lowercase(c) == IF 65 <= c /\ c <= 90 THEN c + 32 ELSE c

\* char::to_lowercase (conversions::to_lower): the chars c becomes.  ASCII
\* goes through to_ascii_lowercase, U+0130 becomes i and U+0307, a char
\* of the table its mapping, every other char itself
to_lowercase_char(c) ==
    IF c < 128 THEN <<to_ascii_lowercase(c)>>
    ELSE IF c = 304 THEN <<105, 775>>
    ELSE LET rs == {r \in LowercaseTable :
                        r[1] <= c /\ c <= r[2] /\ (c - r[1]) % r[3] = 0}
         IN  IF rs = {} THEN <<c>>
             ELSE <<c + (CHOOSE r \in rs : TRUE)[4]>>

\* case_ignorable_then_cased on the characters s[k], s[k + step], ...
RECURSIVE case_ignorable_then_cased(_, _, _)
case_ignorable_then_cased(s, k, step) ==
    IF k < 1 \/ k > Len(s) THEN FALSE
    ELSE IF Case_Ignorable(s[k]) THEN case_ignorable_then_cased(s, k + step, step)
    ELSE Cased(s[k])

\* map_uppercase_sigma: capital sigma (U+03A3) at position i becomes the
\* final sigma (U+03C2) at the end of a word and the small sigma (U+03C3)
\* elsewhere
map_uppercase_sigma(from, i) ==
    IF case_ignorable_then_cased(from, i - 1, -1)
       /\ ~case_ignorable_then_cased(from, i + 1, 1)
    THEN 962 ELSE 963

\* str::to_lowercase, from the i-th character on
RECURSIVE to_lowercase_from(_, _)
to_lowercase_from(s, i) ==
    IF i > Len(s) THEN <<>>
    ELSE (IF s[i] = 931 THEN <<map_uppercase_sigma(s, i)>>
          ELSE to_lowercase_char(s[i]))
         \o to_lowercase_from(s, i + 1)

\* str::to_lowercase
to_lowercase(s) == to_lowercase_from(s, 1)

\* str::contains(pattern): the pattern occurs as a contiguous substring
contains(s, pat) ==
    \E i \in 0..(Len(s) - Len(pat)) : SubSeq(s, i + 1, i + Len(pat)) = pat

str_embed == Str(<<"e","m","b","e","d">>)
str_embedding == Str(<<"e","m","b","e","d","d","i","n","g">>)
str_rerank == Str(<<"r","e","r","a","n","k">>)

(***************************************************************************)
(* map_provider_name (models_dev.rs 114-128).                              *)
(***************************************************************************)
map_provider_name_WrongArm(models_dev_id) ==
    CASE models_dev_id = "anthropic" -> "claude"
      [] models_dev_id = "google" -> "gemini"
      [] models_dev_id = "amazon-bedrock" -> "bedrock"
      [] models_dev_id = "azure" -> "azure-openai"
      [] models_dev_id = "cloudflare-workers-ai" -> "cloudflare"
      [] models_dev_id = "moonshotai" -> "moonshot"
      [] models_dev_id = "moonshotai-cn" -> "moonshot"
      [] models_dev_id = "alibaba" -> "qianwen"
      [] models_dev_id = "alibaba-cn" -> "qianwen"
      [] models_dev_id = "zai" -> "zhipuai"
      [] OTHER -> models_dev_id

map_provider_name(models_dev_id) ==
    CASE models_dev_id = "anthropic" -> "claude"
      [] models_dev_id = "google" -> "gemini"
      [] models_dev_id = "amazon-bedrock" -> "bedrock"
      [] models_dev_id = "azure" -> "azure-openai"
      [] models_dev_id = "cloudflare-workers-ai" -> "cloudflare"
      [] models_dev_id = "moonshotai" -> "moonshot"
      [] models_dev_id = "moonshotai-cn" -> "moonshot"
      [] models_dev_id = "alibaba" -> "qianwen"
      [] models_dev_id = "alibaba-cn" -> "qianwen"
      [] models_dev_id \in {"zai", "zai-coding-plan"} -> "zhipuai"
      [] OTHER -> models_dev_id

(***************************************************************************)
(* determine_model_type (models_dev.rs 131-150).  `model` has the fields   *)
(* id and name of ModelDataDev.                                            *)
(***************************************************************************)
determine_model_type_RerankFirst(model) ==
    LET name_lower == to_lowercase(model.name)
        id_lower == to_lowercase(model.id)
    IN  IF contains(name_lower, str_rerank) \/ contains(id_lower, str_rerank)
        THEN "reranker"
        ELSE IF \/ contains(name_lower, str_embed)
                \/ contains(id_lower, str_embed)
             THEN "embedding"
             ELSE "chat"

determine_model_type(model) ==
    LET name_lower == to_lowercase(model.name)
        id_lower == to_lowercase(model.id)
    IN  IF \/ contains(name_lower, str_embed)
           \/ contains(id_lower, str_embed)
           \/ contains(name_lower, str_embedding)
           \/ contains(id_lower, str_embedding)
        THEN "embedding"
        ELSE IF contains(name_lower, str_rerank) \/ contains(id_lower, str_rerank)
             THEN "reranker"
             ELSE "chat"

(***************************************************************************)
(* convert_models_dev_to_provider_models (models_dev.rs 153-248).          *)
(* A ModelsDevResponse is a function from provider ids to ProviderData     *)
(* records [models |-> function from model keys to ModelDataDev records].  *)
(* HashMap iteration order is unspecified: the caller passes the order in  *)
(* which the provider ids are visited (pord) and, for each provider, the   *)
(* order in which the keys of its own models map are visited (mord[id]).   *)
(* ModelData is defined in client/model.rs: the models whose JSON it does  *)
(* not read are passed as well (unread[id]).                               *)
(***************************************************************************)
\* `v as usize`, `v as isize` on u64: value-preserving below 2^63, which
\* holds every number the model can represent
as_usize(v) == v
as_isize(v) == v

\* Option::or, Option::map of the two casts
or(a, b) == IF IsSome(a) THEN a ELSE b
map_as_usize(o) == IF IsSome(o) THEN Some(as_usize(Unwrap(o))) ELSE None
map_as_isize(o) == IF IsSome(o) THEN Some(as_isize(Unwrap(o))) ELSE None

\* ModelData::new(name) (client/model.rs): the record with that name and
\* every other field at its default
ModelData_new(name) ==
    [ name |-> name,
      type |-> "chat",
      max_input_tokens |-> None,
      input_price |-> None,
      output_price |-> None,
      max_output_tokens |-> None,
      require_max_tokens |-> FALSE,
      supports_vision |-> FALSE,
      supports_function_calling |-> FALSE,
      max_tokens_per_chunk |-> None,
      default_chunk_size |-> None,
      max_batch_size |-> None ]

\* lines 215-216: serde_json::from_value(model_json).unwrap_or_else(|_|
\* ModelData::new(model_id)).  Whether ModelData reads the JSON is decided
\* by its definition in client/model.rs: `reads` is that outcome
from_value_or_new(model_json, reads, model_id) ==
    IF reads THEN model_json ELSE ModelData_new(model_id)

\* lines 173-234: the ModelData built for one ModelDataDev
convert_model(model_id, model_dev, reads) ==
    LET model_type == determine_model_type(model_dev)
        model_json ==
                [ name |-> model_id,
                  type |-> model_type,
                  max_input_tokens |->
                      map_as_usize(or(model_dev.limit.input, model_dev.limit.context)),
                  input_price |-> model_dev.cost.input,
                  output_price |-> model_dev.cost.output,
                  max_output_tokens |-> map_as_isize(model_dev.limit.output),
                  require_max_tokens |-> FALSE,
                  supports_vision |->
                      \/ "image" \in Range(model_dev.modalities.input)
                      \/ "vision" \in Range(model_dev.modalities.input),
                  supports_function_calling |-> model_dev.tool_call,
                  max_tokens_per_chunk |-> None,
                  default_chunk_size |-> None,
                  max_batch_size |-> None ]
        model_data == from_value_or_new(model_json, reads, model_id)
    IN  IF model_data.type = "embedding"
        THEN [model_data EXCEPT
                !.max_tokens_per_chunk =
                    IF IsSome(model_dev.limit.context)
                    THEN Some(as_usize(Unwrap(model_dev.limit.context)))
                    ELSE IF IsSome(model_dev.limit.input)
                         THEN Some(as_usize(Unwrap(model_dev.limit.input)))
                         ELSE None,
                !.default_chunk_size = Some(1000),
                !.max_batch_size = Some(100)]
        ELSE model_data

\* a filter that lets every model through
is_deprecated_Never(model_dev) == FALSE

\* line 169: model_dev.status.as_deref() == Some("deprecated")
is_deprecated(model_dev) == model_dev.status = Some("deprecated")

\* lines 167-237: the inner loop, from position i of the visiting order;
\* unread holds the keys of the models whose JSON ModelData does not read
RECURSIVE convert_models(_, _, _, _)
convert_models(models, mord, unread, i) ==
    IF i > Len(mord) THEN <<>>
    ELSE LET rest == convert_models(models, mord, unread, i + 1)
         IN  IF is_deprecated(models[mord[i]]) THEN rest
             ELSE <<convert_model(mord[i], models[mord[i]], mord[i] \notin unread)>>
                  \o rest

\* lines 158-245: the outer loop, from position i of the visiting order
RECURSIVE convert_providers(_, _, _, _, _)
convert_providers(providers, pord, mord, unread, i) ==
    IF i > Len(pord) THEN <<>>
    ELSE LET provider_id == pord[i]
             rest == convert_providers(providers, pord, mord, unread, i + 1)
         IN  IF provider_id \notin DOMAIN providers THEN rest
             ELSE IF DOMAIN providers[provider_id].models = {} THEN rest
             ELSE LET aichat_provider == map_provider_name(provider_id)
                      models == convert_models(providers[provider_id].models,
                                               mord[provider_id],
                                               unread[provider_id], 1)
                  IN  IF models # <<>>
                      THEN <<[provider |-> aichat_provider, models |-> models]>> \o rest
                      ELSE rest

convert_models_dev_to_provider_models(resp, pord, mord, unread) ==
    convert_providers(resp, pord, mord, unread, 1)

\* the orders in which a HashMap with key set S may be visited
Orders(S) ==
    {o \in [1..Cardinality(S) -> S] : \A i, j \in 1..Cardinality(S) : o[i] = o[j] => i = j}

(***************************************************************************)
(* Catalog documents the remote server may serve (ModelsDevResponse).      *)
(***************************************************************************)
ModelDataDev(id, name, status, context, inp, out, modin, tool) ==
    [ id |-> id, name |-> name, status |-> status,
      limit |-> [context |-> context, input |-> inp, output |-> out],
      modalities |-> [input |-> modin],
      cost |-> [input |-> None, output |-> None],
      tool_call |-> tool ]

dev_claude == ModelDataDev(Str(<<"c","l","a","u","d","e","-","3">>), Str(<<"C","l","a","u","d","e"," ","3">>),
                  None, Some(200), None, Some(8), <<"text", "image">>, TRUE)
dev_gpt == ModelDataDev(Str(<<"g","p","t","-","4">>), Str(<<"G","P","T","-","4">>),
                  None, Some(128), Some(100), None, <<"text">>, TRUE)
dev_old == ModelDataDev(Str(<<"g","p","t","-","3">>), Str(<<"G","P","T","-","3">>),
                  Some("deprecated"), Some(4), None, None, <<"text">>, FALSE)
dev_embed == ModelDataDev(Str(<<"t","e","x","t","-","e","m","b","e","d","d","i","n","g","-","3","-","l","a","r","g","e">>), Str(<<"E","m","b","e","d","d","i","n","g"," ","3">>),
                  None, Some(8), None, None, <<"text">>, FALSE)
dev_kimi == ModelDataDev(Str(<<"k","i","m","i","-","k","2">>), Str(<<"K","i","m","i"," ","K","2">>),
                  Some("beta"), None, Some(64), Some(16), <<"text">>, TRUE)

DocA == ("anthropic" :> [models |-> ("claude-3" :> dev_claude)])
DocB == ("openai" :> [models |-> ("gpt-4" :> dev_gpt @@ "gpt-3" :> dev_old)])
        @@ ("moonshotai" :> [models |-> ("kimi-k2" :> dev_kimi)])
CatalogDocs == {DocA, DocB}

ModelKeys(doc) == UNION {DOMAIN doc[p].models : p \in DOMAIN doc}

\* the orders in which the models maps of a document may be visited: each
\* provider's HashMap has an order of its own
ModelOrders(doc) ==
    { mo \in [DOMAIN doc -> UNION {Orders(DOMAIN doc[p].models) : p \in DOMAIN doc}] :
        \A p \in DOMAIN doc : mo[p] \in Orders(DOMAIN doc[p].models) }

\* the models of a document that ModelData may fail to read: for each
\* provider any of its models that are not deprecated
UnreadSets(doc) ==
    { u \in [DOMAIN doc -> SUBSET ModelKeys(doc)] :
        \A p \in DOMAIN doc :
            u[p] \subseteq {k \in DOMAIN doc[p].models : ~is_deprecated(doc[p].models[k])} }

\* none of the models unread, or all of them
UnreadSamples(doc) ==
    { [p \in DOMAIN doc |-> {}],
      [p \in DOMAIN doc |->
          {k \in DOMAIN doc[p].models : ~is_deprecated(doc[p].models[k])}] }

\* every catalog that is the conversion of one whole document
Conversions(doc) ==
    { convert_models_dev_to_provider_models(doc, po, mo, u) :
        po \in Orders(DOMAIN doc), mo \in ModelOrders(doc), u \in UnreadSets(doc) }

(***************************************************************************)
(* get_models_dev and clear_cache (models_dev.rs 285-321).                 *)
(***************************************************************************)
CACHE_TTL_SECONDS == 3600

Callers == {"c1", "c2"}
TickSteps == {1800, 3599}
FetchErrors == {"send", "http_status", "json", "deserialize"}

Ok(data) == [tag |-> "Ok", data |-> data, err |-> ""]
Err(kind) == [tag |-> "Err", data |-> <<>>, err |-> kind]

\* lines 291-297: the cached entry is served: elapsed() is Ok (the clock
\* is not behind fetched_at) and elapsed.as_secs() < CACHE_TTL_SECONDS
cache_hit_Inclusive(cache, t) ==
    /\ IsSome(cache)
    /\ t >= Unwrap(cache).fetched_at
    /\ (t - Unwrap(cache).fetched_at) <= CACHE_TTL_SECONDS

cache_hit(cache, t) ==
    /\ IsSome(cache)
    /\ t >= Unwrap(cache).fetched_at
    /\ (t - Unwrap(cache).fetched_at) < CACHE_TTL_SECONDS

\* line 285: a caller enters get_models_dev
Call(p) ==
    /\ pc[p] = "idle"
    /\ fetches < MaxFetches
    /\ pc' = [pc EXCEPT ![p] = "lock_check"]
    /\ UNCHANGED <<CACHE, lock, now, response, provider_models, result, fetches, loopVars, pureVars, extVars>>

\* line 290: CACHE.lock()
LockCheck(p) ==
    /\ pc[p] = "lock_check"
    /\ lock = "free"
    /\ lock' = p
    /\ pc' = [pc EXCEPT ![p] = "check"]
    /\ UNCHANGED <<CACHE, now, response, provider_models, result, fetches, loopVars, pureVars, extVars>>

\* lines 291-298: the freshness check; the guard is dropped on both paths
Check_KeepsGuard(p) ==
    /\ pc[p] = "check"
    /\ lock = p
    /\ IF cache_hit(CACHE, now)
       THEN /\ result' = [result EXCEPT ![p] = Ok(Unwrap(CACHE).data)]
            /\ pc' = [pc EXCEPT ![p] = "ret_cached"]
            /\ lock' = "free"
       ELSE /\ pc' = [pc EXCEPT ![p] = "fetch"]
            /\ lock' = lock
            /\ UNCHANGED result
    /\ UNCHANGED <<CACHE, now, response, provider_models, fetches, loopVars, pureVars, extVars>>

Check(p) ==
    /\ pc[p] = "check"
    /\ lock = p
    /\ IF cache_hit(CACHE, now)
       THEN /\ result' = [result EXCEPT ![p] = Ok(Unwrap(CACHE).data)]
            /\ pc' = [pc EXCEPT ![p] = "ret_cached"]
       ELSE /\ pc' = [pc EXCEPT ![p] = "fetch"]
            /\ UNCHANGED result
    /\ lock' = "free"
    /\ UNCHANGED <<CACHE, now, response, provider_models, fetches, loopVars, pureVars, extVars>>

\* lines 257-260: fetch_models_dev sends the GET and awaits the response
SendFetch(p) ==
    /\ pc[p] = "fetch"
    /\ fetches' = fetches + 1
    /\ pc' = [pc EXCEPT ![p] = "await"]
    /\ UNCHANGED <<CACHE, lock, now, response, provider_models, result, loopVars, pureVars, extVars>>

\* lines 260-273: send().await returns a response with a success status;
\* the call suspends again on response.json()
SendReturns(p) ==
    /\ pc[p] = "await"
    /\ pc' = [pc EXCEPT ![p] = "await_json"]
    /\ UNCHANGED <<CACHE, lock, now, response, provider_models, result, fetches, loopVars, pureVars, extVars>>

\* lines 273-281, 301-302: the body arrives and deserializes to document
\* doc, which is converted at once
FetchOk(p, doc, po, mo, unread) ==
    /\ pc[p] = "await_json"
    /\ response' = [response EXCEPT ![p] = Some(doc)]
    /\ provider_models' =
          [provider_models EXCEPT
              ![p] = convert_models_dev_to_provider_models(doc, po, mo, unread)]
    /\ pc' = [pc EXCEPT ![p] = "lock_store"]
    /\ UNCHANGED <<CACHE, lock, now, result, fetches, loopVars, pureVars, extVars>>

\* the position at which a fetch fails with kind: sending and the status test
\* come before the second suspension, parsing and deserializing after it
fails_at(kind) == IF kind \in {"send", "http_status"} THEN "await" ELSE "await_json"

\* lines 261, 263-269, 274, 279, 301: the fetch fails and the ? operator
\* returns the error
FetchFail_Invalidates(p, kind) ==
    /\ pc[p] = fails_at(kind)
    /\ result' = [result EXCEPT ![p] = Err(kind)]
    /\ pc' = [pc EXCEPT ![p] = "ret_err"]
    /\ CACHE' = None
    /\ UNCHANGED <<lock, now, response, provider_models, fetches, loopVars, pureVars, extVars>>

FetchFail(p, kind) ==
    /\ pc[p] = fails_at(kind)
    /\ result' = [result EXCEPT ![p] = Err(kind)]
    /\ pc' = [pc EXCEPT ![p] = "ret_err"]
    /\ UNCHANGED <<CACHE, lock, now, response, provider_models, fetches, loopVars, pureVars, extVars>>

\* lines 252-255: the HTTP client cannot be built; no request is sent
ClientFail(p) ==
    /\ pc[p] = "fetch"
    /\ result' = [result EXCEPT ![p] = Err("client")]
    /\ pc' = [pc EXCEPT ![p] = "ret_err"]
    /\ UNCHANGED <<CACHE, lock, now, response, provider_models, fetches, loopVars, pureVars, extVars>>

\* line 306: CACHE.lock()
LockStore(p) ==
    /\ pc[p] = "lock_store"
    /\ lock = "free"
    /\ lock' = p
    /\ pc' = [pc EXCEPT ![p] = "store"]
    /\ UNCHANGED <<CACHE, now, response, provider_models, result, fetches, loopVars, pureVars, extVars>>

\* lines 307-313: the new snapshot replaces the entry, the guard is dropped
Store_Merges(p) ==
    /\ pc[p] = "store"
    /\ lock = p
    /\ CACHE' = Some([ data |-> IF IsSome(CACHE)
                                THEN Unwrap(CACHE).data \o provider_models[p]
                                ELSE provider_models[p],
                       fetched_at |-> now ])
    /\ lock' = "free"
    /\ result' = [result EXCEPT ![p] = Ok(provider_models[p])]
    /\ pc' = [pc EXCEPT ![p] = "ret_fresh"]
    /\ UNCHANGED <<now, response, provider_models, fetches, loopVars, pureVars, extVars>>

Store(p) ==
    /\ pc[p] = "store"
    /\ lock = p
    /\ CACHE' = Some([data |-> provider_models[p], fetched_at |-> now])
    /\ lock' = "free"
    /\ result' = [result EXCEPT ![p] = Ok(provider_models[p])]
    /\ pc' = [pc EXCEPT ![p] = "ret_fresh"]
    /\ UNCHANGED <<now, response, provider_models, fetches, loopVars, pureVars, extVars>>

\* lines 294, 301, 313: the call has returned; its locals are gone
Return(p) ==
    /\ pc[p] \in {"ret_cached", "ret_fresh", "ret_err"}
    /\ pc' = [pc EXCEPT ![p] = "idle"]
    /\ response' = [response EXCEPT ![p] = None]
    /\ provider_models' = [provider_models EXCEPT ![p] = <<>>]
    /\ result' = [result EXCEPT ![p] = None]
    /\ UNCHANGED <<CACHE, lock, now, fetches, loopVars, pureVars, extVars>>

\* lines 318-321: clear_cache takes the mutex, empties the entry, drops it
clear_cache ==
    /\ lock = "free"
    /\ CACHE' = None
    /\ UNCHANGED <<lock, now, pc, response, provider_models, result, fetches, loopVars, pureVars, extVars>>

\* the wall clock advances
Tick(d) ==
    /\ now + d <= MaxTime
    /\ now' = now + d
    /\ UNCHANGED <<CACHE, lock, pc, response, provider_models, result, fetches, loopVars, pureVars, extVars>>

InitCache ==
    /\ CACHE = None
    /\ lock = "free"
    /\ now = 0
    /\ pc = [p \in Callers |-> "idle"]
    /\ response = [p \in Callers |-> None]
    /\ provider_models = [p \in Callers |-> <<>>]
    /\ result = [p \in Callers |-> None]
    /\ fetches = 0

\* no start_directive is running
LoopIdle ==
    /\ dpc = "off"
    /\ depth = 0
    /\ input = <<>>
    /\ output = <<>>
    /\ tool_results = <<>>
    /\ output_format = "Default"
    /\ stdout_terminal = TRUE
    /\ stream = TRUE
    /\ completions = <<>>
    /\ recorded = <<>>
    /\ error = None

\* no pure function is under study
PureIdle ==
    /\ arg = [fn |-> "none"]
    /\ ret = None

\* clear_cache has not run
ClearIdle == cleared_at = None

\* run is not under study
RunIdle ==
    /\ cli = [none |-> TRUE]
    /\ rpc = "off"
    /\ run_format = None
    /\ effects = <<>>
    /\ run_ret = None

\* no shell_execute is running
ShellIdle ==
    /\ spc = "off"
    /\ sdepth = 0
    /\ shell_input = <<>>
    /\ eval_str = <<>>
    /\ dry_run = FALSE
    /\ answer_char = None
    /\ executed = <<>>
    /\ events = <<>>
    /\ shell_ret = None

ExtIdle == ClearIdle /\ RunIdle /\ ShellIdle

Init == InitCache /\ LoopIdle /\ PureIdle /\ ExtIdle

Next ==
    \/ \E p \in Callers : Call(p)
    \/ \E p \in Callers : LockCheck(p)
    \/ \E p \in Callers : Check(p)
    \/ \E p \in Callers : SendFetch(p)
    \/ \E p \in Callers : SendReturns(p)
    \/ \E p \in Callers : \E doc \in CatalogDocs :
          \E po \in Orders(DOMAIN doc), mo \in ModelOrders(doc),
             unread \in UnreadSamples(doc) : FetchOk(p, doc, po, mo, unread)
    \/ \E p \in Callers : ClientFail(p)
    \/ \E p \in Callers : \E kind \in FetchErrors : FetchFail(p, kind)
    \/ \E p \in Callers : LockStore(p)
    \/ \E p \in Callers : Store(p)
    \/ \E p \in Callers : Return(p)
    \/ clear_cache
    \/ \E d \in TickSteps : Tick(d)

Spec == Init /\ [][Next]_vars

(***************************************************************************)
(* SpecSeq: get_models_dev calls that run one after another, every fetch   *)
(* succeeding, nobody clearing the cache.                                  *)
(***************************************************************************)
SeqCall(p) ==
    /\ \A q \in Callers : pc[q] = "idle"
    /\ Call(p)

NextSeq ==
    \/ \E p \in Callers : SeqCall(p)
    \/ \E p \in Callers : LockCheck(p)
    \/ \E p \in Callers : Check(p)
    \/ \E p \in Callers : SendFetch(p)
    \/ \E p \in Callers : SendReturns(p)
    \/ \E p \in Callers : \E doc \in CatalogDocs :
          \E po \in Orders(DOMAIN doc), mo \in ModelOrders(doc),
             unread \in UnreadSamples(doc) : FetchOk(p, doc, po, mo, unread)
    \/ \E p \in Callers : LockStore(p)
    \/ \E p \in Callers : Store(p)
    \/ \E p \in Callers : Return(p)
    \/ \E d \in TickSteps : Tick(d)

SpecSeq == Init /\ [][NextSeq]_vars

(***************************************************************************)
(* SpecClear: Spec with a note taken whenever clear_cache runs: the number *)
(* of requests sent so far and the callers that are not inside a call.     *)
(* The server serves the one-model catalog DocA.                           *)
(***************************************************************************)
\* lines 318-321: clear_cache takes the mutex, empties the entry, drops it
ClearNoted ==
    /\ lock = "free"
    /\ CACHE' = None
    /\ cleared_at' = Some([ fetches |-> fetches,
                            idle |-> {p \in Callers : pc[p] = "idle"} ])
    /\ UNCHANGED <<lock, now, pc, response, provider_models, result, fetches, loopVars, pureVars, runVars, shellVars>>

NextClear ==
    \/ \E p \in Callers : Call(p)
    \/ \E p \in Callers : LockCheck(p)
    \/ \E p \in Callers : Check(p)
    \/ \E p \in Callers : SendFetch(p)
    \/ \E p \in Callers : SendReturns(p)
    \/ \E p \in Callers :
          \E po \in Orders(DOMAIN DocA), mo \in ModelOrders(DocA),
             unread \in UnreadSamples(DocA) : FetchOk(p, DocA, po, mo, unread)
    \/ \E p \in Callers : ClientFail(p)
    \/ \E p \in Callers : \E kind \in FetchErrors : FetchFail(p, kind)
    \/ \E p \in Callers : LockStore(p)
    \/ \E p \in Callers : Store(p)
    \/ \E p \in Callers : Return(p)
    \/ ClearNoted
    \/ \E d \in TickSteps : Tick(d)

SpecClear == Init /\ [][NextClear]_vars

(***************************************************************************)
(* Claims about the cache.                                                 *)
(***************************************************************************)
InFlight == {p \in Callers : pc[p] \in {"await", "await_json"}}

\* the entry is within its lifetime: fewer than 3600 seconds have passed
\* since the fetch that filled it completed
WithinLifetime == IsSome(CACHE) /\ now - Unwrap(CACHE).fetched_at < 3600

C1_CheckStep ==
    \A p \in Callers :
        /\ (pc[p] = "check" /\ pc'[p] # "check") =>
              IF WithinLifetime
              THEN /\ pc'[p] = "ret_cached"
                   /\ result'[p] = Ok(Unwrap(CACHE).data)
                   /\ fetches' = fetches
              ELSE pc'[p] = "fetch"
        /\ (pc[p] = "fetch" /\ pc'[p] # "fetch") =>
              pc'[p] = "await" /\ fetches' = fetches + 1
        /\ (pc[p] # "fetch" /\ pc'[p] # pc[p]) => fetches' = fetches
        /\ pc'[p] = "await" => pc[p] \in {"fetch", "await"}
        /\ pc'[p] = "ret_fresh" => pc[p] \in {"store", "ret_fresh"}

\* C1: with calls running one after another and every fetch succeeding, a
\* call that checks the cache less than 3600 seconds after the last
\* successful fetch completed returns the cached catalog and issues no
\* fetch; a call that finds the cache empty or expired issues exactly one
\* fetch; so the k-th fetch cannot happen before (k-1) lifetimes have passed.
C1_CacheLifetime ==
    /\ [](fetches >= 1 => now >= 3600 * (fetches - 1))
    /\ [](\A p \in Callers : pc[p] = "ret_fresh" => fetches >= 1)
    /\ [][C1_CheckStep]_vars

\* two fetches were needed (cold start, then expiry) and a later call was
\* served from the cache
C1_Witness ==
    /\ fetches = 2
    /\ now >= 3600
    /\ \E p \in Callers : pc[p] = "ret_cached"

\* no request has been sent since clear_cache last ran
JustCleared == cleared_at # None /\ fetches = Unwrap(cleared_at).fetches

\* caller q began a call after clear_cache last ran
BeganAfterClear(q) == q \in Unwrap(cleared_at).idle /\ pc[q] # "idle"

\* no call is on its way to the request: between entering get_models_dev and
\* sending the GET
NoneOnItsWay == \A r \in Callers : pc[r] \notin {"lock_check", "check", "fetch"}

\* C13: once clear_cache has run, the next call sends a request, whatever
\* the age of the entry that was cleared: as long as no request has been sent
\* since the clear, no call that began after it is served from the cache,
\* unless an earlier call is still on its way to the request.
C13_ClearForcesFetch ==
    \A q \in Callers :
        (JustCleared /\ BeganAfterClear(q) /\ NoneOnItsWay) => pc[q] # "ret_cached"

\* C2: overlapping calls on a cold cache share one in-flight fetch: at most
\* one fetch is outstanding at any time.
C2_SingleFlight == Cardinality(InFlight) <= 1

C3_FailStep ==
    /\ \A p \in Callers :
          (pc[p] \in {"fetch", "await", "await_json"} /\ pc'[p] = "ret_err") =>
              /\ CACHE' = CACHE
              /\ result'[p].tag = "Err"
    /\ CACHE' # CACHE =>
          \/ CACHE' = None
          \/ \E p \in Callers : pc[p] = "store" /\ pc'[p] = "ret_fresh" /\ IsSome(response[p])

\* C3: a call whose fetch fails returns an error, and the step on which it
\* fails leaves the cache entry as it was; the entry changes only when a
\* successful call swaps its snapshot in, or on clear_cache.
C3_FailureKeepsCache ==
    /\ [](\A p \in Callers : pc[p] = "ret_err" =>
              result[p].tag = "Err" /\ response[p] = None)
    /\ [][C3_FailStep]_vars

\* a call has failed and the stale entry of an earlier fetch is still there
C3_Witness ==
    \E p \in Callers :
        /\ pc[p] = "ret_err"
        /\ IsSome(CACHE)
        /\ now - Unwrap(CACHE).fetched_at >= 3600

\* C4: the CACHE mutex is held only during the freshness check and during
\* the swap, never while the caller's fetch is being sent or is outstanding.
C4_LockNotHeldAcrossFetch ==
    \A p \in Callers :
        /\ pc[p] \in {"fetch", "await", "await_json", "lock_store"} => lock # p
        /\ lock = p => pc[p] \in {"check", "store"}

\* one caller's fetch is outstanding while another caller holds the mutex
\* and reads the cache
C4_Witness ==
    \E p, q \in Callers : pc[p] \in {"await", "await_json"} /\ pc[q] = "check" /\ lock = q

WholeCatalogs == UNION {Conversions(doc) : doc \in CatalogDocs}

C5_SwapStep ==
    (CACHE' # CACHE /\ IsSome(CACHE')) =>
        \E p \in Callers :
            /\ pc[p] = "store" /\ pc'[p] = "ret_fresh"
            /\ Unwrap(CACHE').data = provider_models[p]
            /\ Unwrap(CACHE').data \in Conversions(Unwrap(response[p]))
            /\ Unwrap(CACHE').fetched_at = now
            /\ result'[p] = Ok(Unwrap(CACHE').data)

\* C5: the cached catalog, and every catalog a caller is handed, is the
\* whole conversion of one fetched document; the entry's data and
\* fetched_at are replaced together, by the one call that fetched them.
C5_AtomicRefresh ==
    /\ [](IsSome(CACHE) => Unwrap(CACHE).data \in WholeCatalogs)
    /\ [](\A p \in Callers :
              pc[p] \in {"ret_cached", "ret_fresh"} =>
                  result[p].tag = "Ok" /\ result[p].data \in WholeCatalogs)
    /\ [][C5_SwapStep]_vars

\* a reader was handed the old catalog while another call swapped in a new one
C5_Witness ==
    \E p, q \in Callers :
        /\ pc[p] = "ret_cached" /\ pc[q] = "ret_fresh"
        /\ result[p].data # result[q].data
        /\ Unwrap(CACHE).data = result[q].data

(***************************************************************************)
(* SpecPure: the pure functions, applied to an input drawn by Init.        *)
(***************************************************************************)
ProviderIdSamples ==
    { "anthropic", "google", "amazon-bedrock", "azure", "cloudflare-workers-ai",
      "moonshotai", "moonshotai-cn", "alibaba", "alibaba-cn", "zai", "zai-coding-plan",
      "openai", "claude", "moonshot", "Anthropic", "", "zai-coding", "azure-openai",
      "google-vertex", "alibaba-us", "zhipuai" }

\* ids and names; the last four hold the Kelvin sign (U+212A), capital E
\* acute (U+00C9), capital I with dot above (U+0130) and capital sigma (U+03A3)
NameSamples ==
    { Str(<<"t","e","x","t","-","e","m","b","e","d","d","i","n","g","-","3","-","l","a","r","g","e">>),
      Str(<<"r","e","r","a","n","k","-","e","n","g","l","i","s","h","-","v","3">>),
      Str(<<"g","p","t","-","4">>),
      Str(<<"E","m","b","e","d","-","R","e","r","a","n","k">>),
      Str(<<"E","M","B","E","D"," ","v","2">>),
      Str(<<"R","e","R","a","n","k","e","r">>),
      Str(<<"e","m","b","e","-","d">>),
      Str(<<"b","g","e","-","r","e","r","a","n","k","e","r">>),
      Str(<<"T","i","t","a","n"," ","E","m","b","e","d","d","i","n","g","s">>),
      <<>>,
      Str(<<"r","e","r","A","N","-","k">>),
      Str(<<"e","m","r","e","r","a","n","k","b","e","d">>),
      Str(<<"r","e","r","a","n">>) \o <<8490>> \o Str(<<"-","v","1">>),
      <<201>> \o Str(<<"M","B","E","D">>),
      Str(<<"E","M","B","E","D","D">>) \o <<304>> \o Str(<<"N","G">>),
      Str(<<"R","E","R","A","N","K">>) \o <<931>> }

(***************************************************************************)
(* split_line (completer.rs 200-219), on a line as a sequence of chars.    *)
(***************************************************************************)
\* char::len_utf8
len_utf8(ch) ==
    IF ch < 128 THEN 1
    ELSE IF ch < 2048 THEN 2
    ELSE IF ch < 65536 THEN 3
    ELSE 4

\* the byte index char_indices reports for the k-th char; for k = Len + 1
\* it is line.len()
RECURSIVE byte_index(_, _)
byte_index(line, k) ==
    IF k <= 1 THEN 0 ELSE byte_index(line, k - 1) + len_utf8(line[k - 1])

str_len(line) == byte_index(line, Len(line) + 1)

\* &line[s..e]: the chars that start at a byte index in s..e-1
slice(line, s, e) ==
    LET ks == {k \in 1..Len(line) : s <= byte_index(line, k) /\ byte_index(line, k) < e}
    IN  [n \in 1..Cardinality(ks) |->
            line[CHOOSE k \in ks : Cardinality({m \in ks : m < k}) = n - 1]]

\* lines 203-212: the loop over char_indices from the k-th char on, with the
\* locals parts and part_start; yields both at the end of the line
RECURSIVE split_loop(_, _, _, _)
split_loop(line, k, parts, part_start) ==
    IF k > Len(line) THEN [parts |-> parts, part_start |-> part_start]
    ELSE LET i == byte_index(line, k)
         IN  IF line[k] = Ord[" "]
             THEN IF IsSome(part_start)
                  THEN split_loop(line, k + 1,
                           Append(parts, [text |-> slice(line, Unwrap(part_start), i),
                                          offset |-> Unwrap(part_start)]),
                           None)
                  ELSE split_loop(line, k + 1, parts, part_start)
             ELSE IF part_start = None
                  THEN split_loop(line, k + 1, parts, Some(i))
                  ELSE split_loop(line, k + 1, parts, part_start)

\* a splitter that returns the closed parts only
split_line_ClosedOnly(line) ==
    split_loop(line, 1, <<>>, None).parts

\* lines 200-219
split_line(line) ==
    LET end == split_loop(line, 1, <<>>, None)
    IN  IF IsSome(end.part_start)
        THEN Append(end.parts, [text |-> slice(line, Unwrap(end.part_start), str_len(line)),
                                offset |-> Unwrap(end.part_start)])
        ELSE Append(end.parts, [text |-> <<>>, offset |-> str_len(line)])

\* space, a, e acute (two bytes), tab, the ideograph U+65E5 (three bytes)
\* and the emoji U+1F600 (four bytes)
LineChars == {Ord[" "], Ord["a"], 233, 9, 26085, 128512}

\* the lines of test_split_line (completer.rs 221-236)
TestLines ==
    { Str(<<".","r","o","l","e"," ","c","o","d","e","r">>),
      Str(<<" ",".","r","o","l","e"," "," "," ","c","o","d","e","r">>),
      Str(<<".","s","e","t"," ","h","i","g","h","l","i","g","h","t"," ">>),
      Str(<<".","s","e","t"," ","h","i","g","h","l","i","g","h","t"," ","t">>),
      <<26085, 233, Ord[" "], 26085, Ord[" "]>> }

LineSamples ==
    TestLines \cup UNION {[1..n -> LineChars] : n \in 0..MaxLineLen}

\* catalog entries with every combination of present and absent limits
LimitSamples ==
    { ModelDataDev(Str(<<"m">>), Str(<<"M">>), None, c, i, o, <<"text">>, FALSE) :
        c \in {None, Some(200)}, i \in {None, Some(100)}, o \in {None, Some(8)} }

dev_retired == ModelDataDev(Str(<<"o","l","d">>), Str(<<"O","l","d">>),
                  Some("deprecated"), Some(4), Some(2), Some(1), <<"text">>, FALSE)

\* a provider's model table with no entry
EmptyModels == [k \in {} |-> dev_retired]

\* model tables: empty, one live model, one deprecated model, a live and a
\* deprecated model, two deprecated models, two live models
ModelMapSamples ==
    {EmptyModels}
    \cup {("m1" :> d) : d \in LimitSamples}
    \cup { ("m1" :> dev_retired),
           ("m1" :> dev_kimi @@ "m2" :> dev_retired),
           ("m1" :> dev_retired @@ "m2" :> dev_old),
           ("m1" :> dev_gpt @@ "m2" :> dev_embed) }

\* two ids that map_provider_name sends to the same key and one it keeps
ConvertProviderIds == {"moonshotai", "moonshotai-cn", "openai"}

\* the documents handed to the converter
ConvertDocs ==
    UNION { [P -> {[models |-> m] : m \in ModelMapSamples}] :
              P \in SUBSET ConvertProviderIds }

PureInputs ==
    {[fn |-> "map_provider_name", id |-> i] : i \in ProviderIdSamples}
    \cup {[fn |-> "determine_model_type", id |-> i, name |-> n] :
             i \in NameSamples, n \in NameSamples}
    \cup {[fn |-> "convert_models_dev_to_provider_models", response |-> d] :
             d \in ConvertDocs}
    \cup {[fn |-> "split_line", line |-> l] : l \in LineSamples}

InitPure ==
    /\ InitCache /\ LoopIdle /\ ExtIdle
    /\ arg \in PureInputs
    /\ ret = None

ApplyMapProviderName ==
    /\ arg.fn = "map_provider_name"
    /\ ret = None
    /\ ret' = Some(map_provider_name(arg.id))
    /\ UNCHANGED <<arg, cacheVars, loopVars, extVars>>

ApplyDetermineModelType ==
    /\ arg.fn = "determine_model_type"
    /\ ret = None
    /\ ret' = Some(determine_model_type([id |-> arg.id, name |-> arg.name]))
    /\ UNCHANGED <<arg, cacheVars, loopVars, extVars>>

\* the two HashMaps are visited in some order and ModelData reads the JSON
\* of some of the models
ApplyConvert ==
    /\ arg.fn = "convert_models_dev_to_provider_models"
    /\ ret = None
    /\ \E po \in Orders(DOMAIN arg.response), mo \in ModelOrders(arg.response),
          unread \in UnreadSets(arg.response) :
           ret' = Some(convert_models_dev_to_provider_models(arg.response, po, mo, unread))
    /\ UNCHANGED <<arg, cacheVars, loopVars, extVars>>

ApplySplitLine ==
    /\ arg.fn = "split_line"
    /\ ret = None
    /\ ret' = Some(split_line(arg.line))
    /\ UNCHANGED <<arg, cacheVars, loopVars, extVars>>

NextPure ==
    \/ ApplyMapProviderName
    \/ ApplyDetermineModelType
    \/ ApplyConvert
    \/ ApplySplitLine

SpecPure == InitPure /\ [][NextPure]_vars

\* the alias table of the provider mapping
KnownAliases ==
    ("anthropic" :> "claude") @@ ("google" :> "gemini")
    @@ ("amazon-bedrock" :> "bedrock") @@ ("azure" :> "azure-openai")
    @@ ("cloudflare-workers-ai" :> "cloudflare")
    @@ ("moonshotai" :> "moonshot") @@ ("moonshotai-cn" :> "moonshot")
    @@ ("alibaba" :> "qianwen") @@ ("alibaba-cn" :> "qianwen")
    @@ ("zai" :> "zhipuai") @@ ("zai-coding-plan" :> "zhipuai")

\* C9: map_provider_name sends every id of the alias table to its fixed
\* internal key and every other id to itself.
C9_AliasMapping ==
    (arg.fn = "map_provider_name" /\ IsSome(ret)) =>
        Unwrap(ret) = IF arg.id \in DOMAIN KnownAliases
                      THEN KnownAliases[arg.id]
                      ELSE arg.id

\* the second id of the last arm of the alias table has been mapped
C9_Witness ==
    /\ arg.fn = "map_provider_name"
    /\ arg.id = "zai-coding-plan"
    /\ ret = Some("zhipuai")

\* two characters that are equal up to case: an ASCII letter and its other
\* case, or the Kelvin sign (U+212A) and the letter k
SameLetter(a, b) ==
    \/ a = b
    \/ \E u \in 65..90 : {a, b} = {u, u + 32}
    \/ {a, b} = {8490, Ord["k"]} \/ {a, b} = {8490, Ord["K"]}

\* word occurs in s, ignoring case
OccursIgnoringCase(s, word) ==
    \E i \in 0..(Len(s) - Len(word)) :
        \A k \in 1..Len(word) : SameLetter(s[i + k], word[k])

\* C10: determine_model_type returns exactly one of embedding, reranker,
\* chat: embedding when the id or the name contains "embed" in any case,
\* otherwise reranker when either contains "rerank", otherwise chat.
C10_ModelType ==
    (arg.fn = "determine_model_type" /\ IsSome(ret)) =>
        LET e == OccursIgnoringCase(arg.id, str_embed)
                    \/ OccursIgnoringCase(arg.name, str_embed)
            r == OccursIgnoringCase(arg.id, str_rerank)
                    \/ OccursIgnoringCase(arg.name, str_rerank)
        IN  Unwrap(ret) = IF e THEN "embedding"
                          ELSE IF r THEN "reranker" ELSE "chat"

\* a model matching "rerank" in its id and "embed" in its name is embedding
C10_Witness ==
    /\ arg.fn = "determine_model_type"
    /\ OccursIgnoringCase(arg.id, str_rerank)
    /\ ~OccursIgnoringCase(arg.id, str_embed)
    /\ OccursIgnoringCase(arg.name, str_embed)
    /\ ret = Some("embedding")

\* the converter has returned
Converted == arg.fn = "convert_models_dev_to_provider_models" /\ IsSome(ret)

\* the models of the document that are not deprecated, as <<provider id, key>>
LiveModels(doc) ==
    { <<p, k>> \in (DOMAIN doc) \X ModelKeys(doc) :
        /\ k \in DOMAIN doc[p].models
        /\ doc[p].models[k].status # Some("deprecated") }

\* the models of a result, as <<entry index, model index>>
ListedModels(res) ==
    UNION { {<<e, j>> : j \in 1..Len(res[e].models)} : e \in 1..Len(res) }

\* the input limit a model is listed with: the explicit one, else the context
ExpectedInputLimit(md) ==
    IF md.limit.input # None THEN md.limit.input
    ELSE IF md.limit.context # None THEN md.limit.context
    ELSE None

\* model m of entry e of the result is the listing of catalog model <<p, k>>
\* with the limits the catalog model calls for
ListsWithLimits(doc, e, m, p, k) ==
    /\ e.provider = map_provider_name(p)
    /\ m.name = k
    /\ m.max_input_tokens = ExpectedInputLimit(doc[p].models[k])
    /\ m.max_output_tokens = doc[p].models[k].limit.output

ProviderKeys(doc) == {map_provider_name(p) : p \in DOMAIN doc}

\* the live models of the providers that map to key
LiveUnder(doc, key) == {pk \in LiveModels(doc) : map_provider_name(pk[1]) = key}

\* the models listed in the entries that carry key
ListedUnder(res, key) == {ej \in ListedModels(res) : res[ej[1]].provider = key}

\* C12: the result lists no deprecated model and every model that is not
\* deprecated, and no entry has an empty model list: a provider without
\* models, or with deprecated models only, has no entry.
C12_DeprecatedFiltered ==
    Converted =>
        LET doc == arg.response
            res == Unwrap(ret)
        IN  /\ \A e \in 1..Len(res) : res[e].models # <<>>
            /\ \A e \in 1..Len(res) : res[e].provider \in ProviderKeys(doc)
            /\ \A key \in ProviderKeys(doc) :
                   /\ Cardinality(ListedUnder(res, key)) = Cardinality(LiveUnder(doc, key))
                   /\ \A pk \in LiveUnder(doc, key) : \E ej \in ListedUnder(res, key) :
                          res[ej[1]].models[ej[2]].name = pk[2]
                   /\ \A ej \in ListedUnder(res, key) : \E pk \in LiveUnder(doc, key) :
                          res[ej[1]].models[ej[2]].name = pk[2]

\* a provider with a live and a deprecated model beside a provider with
\* deprecated models only and a provider without models: one entry, one model
C12_Witness ==
    /\ Converted
    /\ DOMAIN arg.response = ConvertProviderIds
    /\ arg.response["openai"].models = ("m1" :> dev_kimi @@ "m2" :> dev_retired)
    /\ arg.response["moonshotai"].models = ("m1" :> dev_retired @@ "m2" :> dev_old)
    /\ arg.response["moonshotai-cn"].models = EmptyModels
    /\ Len(Unwrap(ret)) = 1
    /\ Unwrap(ret)[1].provider = "openai"
    /\ Len(Unwrap(ret)[1].models) = 1
    /\ Unwrap(ret)[1].models[1].name = "m1"

\* C16: no two entries of the result carry the same provider key.
C16_OneEntryPerKey ==
    Converted =>
        \A e1, e2 \in 1..Len(Unwrap(ret)) :
            Unwrap(ret)[e1].provider = Unwrap(ret)[e2].provider => e1 = e2

\* the maximal runs of non-space characters of a line, as <<first, last>>
Runs(line) ==
    { r \in (1..Len(line)) \X (1..Len(line)) :
        /\ r[1] <= r[2]
        /\ \A k \in r[1]..r[2] : line[k] # Ord[" "]
        /\ r[1] = 1 \/ line[r[1] - 1] = Ord[" "]
        /\ r[2] = Len(line) \/ line[r[2] + 1] = Ord[" "] }

\* the cursor is not inside a run: the line is empty or ends with a space
CursorAfterSpace(line) == line = <<>> \/ line[Len(line)] = Ord[" "]

\* C15: split_line returns the maximal runs of non-space characters in order
\* of appearance, each with the byte offset it starts at, followed, when the
\* line is empty or ends with a space, by one empty token at offset
\* line.len(); the result is not empty and its last token ends at the cursor.
C15_SplitLine ==
    (arg.fn = "split_line" /\ IsSome(ret)) =>
        LET line == arg.line
            parts == Unwrap(ret)
            n == Cardinality(Runs(line))
        IN  /\ Len(parts) = n + (IF CursorAfterSpace(line) THEN 1 ELSE 0)
            /\ Len(parts) >= 1
            /\ \A r \in Runs(line) :
                   LET k == 1 + Cardinality({q \in Runs(line) : q[1] < r[1]})
                   IN  /\ parts[k].text = SubSeq(line, r[1], r[2])
                       /\ parts[k].offset = byte_index(line, r[1])
            /\ CursorAfterSpace(line) =>
                   parts[Len(parts)] = [text |-> <<>>, offset |-> str_len(line)]
            /\ parts[Len(parts)].offset + str_len(parts[Len(parts)].text) = str_len(line)

\* a line with multi-byte characters that ends with a space: two tokens with
\* byte offsets and the empty token under the cursor
C15_Witness ==
    /\ arg.fn = "split_line"
    /\ arg.line = <<26085, 233, Ord[" "], 26085, Ord[" "]>>
    /\ ret = Some(<< [text |-> <<26085, 233>>, offset |-> 0],
                     [text |-> <<26085>>, offset |-> 6],
                     [text |-> <<>>, offset |-> 10] >>)

(***************************************************************************)
(* convert_output_format and strip_markdown (main.rs 45-118), on strings   *)
(* as character sequences.                                                 *)
(***************************************************************************)
\* the pattern occurs in s at position i
At(s, i, pat) ==
    /\ i >= 1
    /\ i + Len(pat) - 1 <= Len(s)
    /\ SubSeq(s, i, i + Len(pat) - 1) = pat

RECURSIVE Join(_, _)
\* [String]::join(sep)
Join(parts, sep) ==
    IF parts = <<>> THEN <<>>
    ELSE IF Len(parts) = 1 THEN parts[1]
    ELSE parts[1] \o sep \o Join(Tail(parts), sep)

RECURSIVE SplitNewlines(_, _, _)
\* the pieces of s between "\n" characters, from position i, cur being the
\* piece under construction
SplitNewlines(s, i, cur) ==
    IF i > Len(s) THEN <<cur>>
    ELSE IF s[i] = LF THEN <<cur>> \o SplitNewlines(s, i + 1, <<>>)
    ELSE SplitNewlines(s, i + 1, Append(cur, s[i]))

\* str::lines: split on "\n", without a final empty line; a line ended by
\* "\r\n" loses the "\r" too, an unterminated last line keeps it
lines(s) ==
    LET raw == SplitNewlines(s, 1, <<>>)
        cut == IF raw[Len(raw)] = <<>> THEN SubSeq(raw, 1, Len(raw) - 1) ELSE raw
    IN  [k \in 1..Len(cut) |->
            IF k < Len(raw) /\ cut[k] # <<>> /\ cut[k][Len(cut[k])] = 13
            THEN SubSeq(cut[k], 1, Len(cut[k]) - 1)
            ELSE cut[k]]

\* where a match of  open BODY close  that starts at i has its closing
\* delimiter: BODY is one or more characters outside `forbidden`, as short
\* as possible; 0 when there is no match at i
CloseOf(s, i, open, close, forbidden) ==
    LET from == i + Len(open) + 1
        ok(j) == /\ At(s, j, close)
                 /\ \A k \in (i + Len(open))..(j - 1) : s[k] \notin forbidden
        js == {j \in from..Len(s) : ok(j)}
    IN  IF At(s, i, open) /\ js # {}
        THEN CHOOSE j \in js : \A j2 \in js : j <= j2
        ELSE 0

RECURSIVE ReplaceDelimited(_, _, _, _, _)
\* Regex::replace_all of  d1 BODY d1 | d2 BODY d2  by BODY, from position
\* i: leftmost match first, the first alternative before the second,
\* matches do not overlap.  d2 = <<>> when there is one alternative.
ReplaceDelimited(s, i, d1, d2, forbidden) ==
    IF i > Len(s) THEN <<>>
    ELSE LET c1 == CloseOf(s, i, d1, d1, forbidden)
             c2 == IF d2 = <<>> THEN 0 ELSE CloseOf(s, i, d2, d2, forbidden)
         IN  IF c1 > 0
             THEN SubSeq(s, i + Len(d1), c1 - 1)
                     \o ReplaceDelimited(s, c1 + Len(d1), d1, d2, forbidden)
             ELSE IF c2 > 0
             THEN SubSeq(s, i + Len(d2), c2 - 1)
                     \o ReplaceDelimited(s, c2 + Len(d2), d1, d2, forbidden)
             ELSE <<s[i]>> \o ReplaceDelimited(s, i + 1, d1, d2, forbidden)

\* the backquote character
Backquote == Ord["backquote"]

fence == <<Backquote, Backquote, Backquote>>

\* lines 73-82: what a matched code block is replaced by
code_block_content(block) ==
    LET ls == lines(block)
    IN  IF Len(ls) > 2 THEN Join(SubSeq(ls, 2, Len(ls) - 1), <<LF>>) ELSE <<>>

RECURSIVE strip_code_blocks(_, _)
\* lines 72-82: a fence, any characters (as few as possible, maybe none), a fence
strip_code_blocks(s, i) ==
    IF i > Len(s) THEN <<>>
    ELSE LET js == {j \in (i + 3)..Len(s) : At(s, j, fence)}
         IN  IF At(s, i, fence) /\ js # {}
             THEN LET j == CHOOSE j \in js : \A j2 \in js : j <= j2
                  IN  code_block_content(SubSeq(s, i, j + 2))
                         \o strip_code_blocks(s, j + 3)
             ELSE <<s[i]>> \o strip_code_blocks(s, i + 1)

\* \s of the regex crate: the Unicode property White_Space, c lies in a
\* range <<first, last>>
Whitespace(c) ==
    \E r \in
        { <<9, 13>>, <<32, 32>>, <<133, 133>>, <<160, 160>>, <<5760, 5760>>,
          <<8192, 8202>>, <<8232, 8233>>, <<8239, 8239>>, <<8287, 8287>>,
          <<12288, 12288>> } :
        r[1] <= c /\ c <= r[2]

RECURSIVE SkipWhitespace(_, _)
SkipWhitespace(s, i) ==
    IF i <= Len(s) /\ Whitespace(s[i]) THEN SkipWhitespace(s, i + 1) ELSE i

\* lines 107-109: ^#{1,6}\s+ removed from one line
strip_header(line) ==
    LET ks == {k \in 1..6 : /\ k < Len(line)
                            /\ \A m \in 1..k : line[m] = Ord["#"]
                            /\ Whitespace(line[k + 1])}
    IN  IF ks = {} THEN line
        ELSE LET k == CHOOSE k \in ks : TRUE
             IN  SubSeq(line, SkipWhitespace(line, k + 1), Len(line))

\* lines 108-111
strip_headers(s) ==
    LET ls == lines(s)
    IN  Join([k \in 1..Len(ls) |-> strip_header(ls[k])], <<LF>>)

\* where the link  [TEXT](URL)  that starts at i ends: <<end of TEXT, end
\* of the link>>, or <<0, 0>>
LinkAt(s, i) ==
    LET bs == {b \in (i + 1)..Len(s) : s[b] = Ord["]"]}
        b == IF bs = {} THEN 0 ELSE CHOOSE x \in bs : \A y \in bs : x <= y
        ps == {q \in (b + 2)..Len(s) : s[q] = Ord[")"]}
        q == IF ps = {} THEN 0 ELSE CHOOSE x \in ps : \A y \in ps : x <= y
    IN  IF /\ i <= Len(s) /\ s[i] = Ord["["]
           /\ b > i + 1
           /\ At(s, b, Str(<<"]", "(">>))
           /\ q > b + 2
        THEN <<b, q>>
        ELSE <<0, 0>>

RECURSIVE strip_links(_, _)
\* lines 114-115: \[([^\]]+)\]\([^\)]+\) replaced by $1
strip_links(s, i) ==
    IF i > Len(s) THEN <<>>
    ELSE LET m == LinkAt(s, i)
         IN  IF m[1] > 0
             THEN SubSeq(s, i + 1, m[1] - 1) \o strip_links(s, m[2] + 1)
             ELSE <<s[i]>> \o strip_links(s, i + 1)

\* lines 67-118
strip_markdown(text) ==
    LET r1 == strip_code_blocks(text, 1)
        r2 == ReplaceDelimited(r1, 1, <<Backquote>>, <<>>, {Backquote})
        r3 == ReplaceDelimited(r2, 1, Str(<<"*","*","*">>), Str(<<"_","_","_">>), {LF})
        r4 == ReplaceDelimited(r3, 1, Str(<<"*","*">>), Str(<<"_","_">>), {LF})
        r5 == ReplaceDelimited(r4, 1, Str(<<"*">>), Str(<<"_">>), {LF})
        r6 == strip_headers(r5)
    IN  strip_links(r6, 1)

\* serde_json's escape of one char (ESCAPE table and write_char_escape):
\* the quote and the backslash behind a backslash, U+0008, U+0009, U+000A,
\* U+000C and U+000D as \b, \t, \n, \f and \r, every other char below
\* U+0020 as \u00XX, every other char as it is
json_escape_char(c) ==
    LET HEX_DIGITS ==
            Str(<<"0","1","2","3","4","5","6","7","8","9","a","b","c","d","e","f">>)
    IN  CASE c = Ord["\""] -> Str(<<"\\", "\"">>)
          [] c = Ord["\\"] -> Str(<<"\\", "\\">>)
          [] c = 8 -> Str(<<"\\", "b">>)
          [] c = 9 -> Str(<<"\\", "t">>)
          [] c = LF -> Str(<<"\\", "n">>)
          [] c = 12 -> Str(<<"\\", "f">>)
          [] c = 13 -> Str(<<"\\", "r">>)
          [] c < 32 /\ c \notin {8, 9, LF, 12, 13} ->
                Str(<<"\\", "u", "0", "0">>)
                   \o <<HEX_DIGITS[(c \div 16) + 1], HEX_DIGITS[(c % 16) + 1]>>
          [] OTHER -> <<c>>

RECURSIVE json_escape(_)
\* serde_json's format_escaped_str_contents
json_escape(text) ==
    IF text = <<>> THEN <<>>
    ELSE json_escape_char(text[1]) \o json_escape(Tail(text))

\* lines 48-51: serde_json::to_string_pretty(json!({"output": text}))
json_pretty(text) ==
    Str(<<"{">>) \o <<LF>> \o Str(<<" "," ","\"","o","u","t","p","u","t","\"",":"," ","\"">>)
        \o json_escape(text) \o Str(<<"\"">>) \o <<LF>> \o Str(<<"}">>)

YamlIndicators ==
    Range(Str(<<"-", "?", ":", ",", "[", "]", "{", "}", "#", "&", "*", "!", "|", ">",
                "'", "\"", "%", "@", "backquote", " ">>))

RECURSIVE yaml_double_quotes(_)
yaml_double_quotes(text) ==
    IF text = <<>> THEN <<>>
    ELSE (IF text[1] = Ord["'"] THEN Str(<<"'", "'">>) ELSE <<text[1]>>)
            \o yaml_double_quotes(Tail(text))

\* lines 54-57: serde_yaml::to_string(json!({"output": text})) for a text
\* of one line that does not read as a YAML number, boolean or null: a
\* plain scalar when the text may be one, single-quoted otherwise
yaml_string(text) ==
    LET plain == /\ text # <<>>
                 /\ text[1] \notin YamlIndicators
                 /\ text[Len(text)] # Ord[" "]
                 /\ \A k \in 1..Len(text) : text[k] \notin {LF, 13, 9}
                 /\ \A k \in 1..(Len(text) - 1) :
                        /\ ~(text[k] = Ord[":"] /\ text[k + 1] = Ord[" "])
                        /\ ~(text[k] = Ord[" "] /\ text[k + 1] = Ord["#"])
                 /\ text[Len(text)] # Ord[":"]
    IN  Str(<<"o","u","t","p","u","t",":"," ">>)
           \o (IF plain THEN text ELSE Str(<<"'">>) \o yaml_double_quotes(text) \o Str(<<"'">>))
           \o <<LF>>

\* lines 45-65
convert_output_format(text, format) ==
    CASE format = "Json" -> json_pretty(text)
      [] format = "Yaml" -> yaml_string(text)
      [] format = "Plain" -> strip_markdown(text)
      [] OTHER -> text

(***************************************************************************)
(* SpecLoop: start_directive (main.rs 304-350), the recursive tool-call    *)
(* loop.  The frames below the innermost one hold no live locals (input,   *)
(* output and tool_results were moved into the recursive call), so the     *)
(* stack is its depth.                                                     *)
(***************************************************************************)
OutputFormats == {"Default", "Code", "Json", "Yaml", "Plain"}

\* what a completion call may return as text: nothing, plain words, markdown
OutputSamples ==
    { <<>>,
      Str(<<"o","k">>),
      Str(<<"*","*","b","*","*"," ","backquote","c","backquote">>) }

ToolResult(k) == [call |-> k, output |-> "done"]

\* what a completion call may return as tool results: none, one, or two
\* in either order of their call ids
ToolBatches ==
    { <<>>,
      <<ToolResult(1)>>,
      <<ToolResult(1), ToolResult(2)>>,
      <<ToolResult(2), ToolResult(1)>> }

\* Input::merge_tool_results: the turn's text and all its tool results are
\* appended to the conversation as one batch
merge_tool_results(inp, out, results) ==
    [inp EXCEPT !.batches = Append(@, [text |-> out, tool_results |-> results])]

InitLoop ==
    /\ InitCache /\ PureIdle /\ ExtIdle
    /\ dpc = "enter"
    /\ depth = 1
    /\ input = [text |-> "prompt", batches |-> <<>>]
    /\ output = <<>>
    /\ tool_results = <<>>
    /\ output_format \in OutputFormats
    /\ stdout_terminal \in BOOLEAN
    /\ stream \in BOOLEAN
    /\ completions = <<>>
    /\ recorded = <<>>
    /\ error = None

\* lines 312-313, 315
extract_code == ~stdout_terminal /\ output_format = "Code"
disable_stream == ~stdout_terminal /\ output_format # "Default"
buffered == ~stream \/ extract_code \/ disable_stream

\* lines 311-326: the client is created, before_chat_completion runs and
\* the completion call is issued on the frame's input
Enter ==
    /\ dpc = "enter"
    /\ completions' =
          Append(completions,
                 [ input |-> input,
                   streaming |-> ~buffered,
                   print_markdown |-> buffered /\ output_format = "Default",
                   extract_code |-> buffered /\ extract_code ])
    /\ dpc' = "awaiting"
    /\ UNCHANGED <<depth, input, output, tool_results, output_format,
                   stdout_terminal, stream, recorded, error, cacheVars, pureVars, extVars>>

\* lines 311, 314: create_client or before_chat_completion returns Err
EnterFails(kind) ==
    /\ dpc = "enter"
    /\ dpc' = "failed"
    /\ error' = Some(kind)
    /\ UNCHANGED <<depth, input, output, tool_results, output_format,
                   stdout_terminal, stream, completions, recorded, cacheVars, pureVars, extVars>>

\* lines 315-326: the completion call returns its text and tool results
CompletionReturns(out, results) ==
    /\ dpc = "awaiting"
    /\ output' = out
    /\ tool_results' = results
    /\ dpc' = "returned"
    /\ UNCHANGED <<depth, input, output_format, stdout_terminal, stream,
                   completions, recorded, error, cacheVars, pureVars, extVars>>

\* lines 323, 325: the completion call returns Err
CompletionFails ==
    /\ dpc = "awaiting"
    /\ dpc' = "failed"
    /\ error' = Some("completion")
    /\ UNCHANGED <<depth, input, output, tool_results, output_format,
                   stdout_terminal, stream, completions, recorded, cacheVars, pureVars, extVars>>

\* lines 329-332: the text that goes on after the format conversion
formatted(out, format) ==
    IF out # <<>> /\ format # "Default" /\ format # "Code"
    THEN convert_output_format(out, format)
    ELSE out

\* a turn that records the text as the completion call returned it
Record_Raw ==
    /\ dpc = "returned"
    /\ output' = output
    /\ recorded' =
          Append(recorded,
                 [ input |-> input,
                   output |-> output,
                   tool_results |-> tool_results ])
    /\ dpc' = "recorded"
    /\ UNCHANGED <<depth, input, tool_results, output_format, stdout_terminal,
                   stream, completions, error, cacheVars, pureVars, extVars>>

\* lines 328-336: format conversion, then after_chat_completion
Record ==
    /\ dpc = "returned"
    /\ output' = formatted(output, output_format)
    /\ recorded' =
          Append(recorded,
                 [ input |-> input,
                   output |-> formatted(output, output_format),
                   tool_results |-> tool_results ])
    /\ dpc' = "recorded"
    /\ UNCHANGED <<depth, input, tool_results, output_format, stdout_terminal,
                   stream, completions, error, cacheVars, pureVars, extVars>>

\* line 336: after_chat_completion returns Err (the text was converted first)
RecordFails ==
    /\ dpc = "returned"
    /\ output' = formatted(output, output_format)
    /\ dpc' = "failed"
    /\ error' = Some("after_chat_completion")
    /\ UNCHANGED <<depth, input, tool_results, output_format, stdout_terminal,
                   stream, completions, recorded, cacheVars, pureVars, extVars>>

\* lines 338-345: tool results came back: start_directive calls itself on
\* the merged input.  The model follows the recursion to MaxDepth frames.
Recurse_NoMerge ==
    /\ dpc = "recorded"
    /\ tool_results # <<>>
    /\ depth < MaxDepth
    /\ input' = input
    /\ depth' = depth + 1
    /\ output' = <<>>
    /\ tool_results' = <<>>
    /\ dpc' = "enter"
    /\ UNCHANGED <<output_format, stdout_terminal, stream, completions, recorded,
                   error, cacheVars, pureVars, extVars>>

Recurse_Always ==
    /\ dpc = "recorded"
    /\ depth < MaxDepth
    /\ input' = merge_tool_results(input, output, tool_results)
    /\ depth' = depth + 1
    /\ output' = <<>>
    /\ tool_results' = <<>>
    /\ dpc' = "enter"
    /\ UNCHANGED <<output_format, stdout_terminal, stream, completions, recorded,
                   error, cacheVars, pureVars, extVars>>

Recurse ==
    /\ dpc = "recorded"
    /\ tool_results # <<>>
    /\ depth < MaxDepth
    /\ input' = merge_tool_results(input, output, tool_results)
    /\ depth' = depth + 1
    /\ output' = <<>>
    /\ tool_results' = <<>>
    /\ dpc' = "enter"
    /\ UNCHANGED <<output_format, stdout_terminal, stream, completions, recorded,
                   error, cacheVars, pureVars, extVars>>

\* line 338: no tool results: the frame goes on to exit_session
Finish ==
    /\ dpc = "recorded"
    /\ tool_results = <<>>
    /\ dpc' = "exit"
    /\ UNCHANGED <<depth, input, output, tool_results, output_format,
                   stdout_terminal, stream, completions, recorded, error,
                   cacheVars, pureVars, extVars>>

\* lines 348-349: exit_session, and the frame returns Ok to its caller,
\* which is the frame above at line 345 or run
ExitSession ==
    /\ dpc = "exit"
    /\ depth' = depth - 1
    /\ dpc' = IF depth = 1 THEN "done" ELSE "exit"
    /\ UNCHANGED <<input, output, tool_results, output_format, stdout_terminal,
                   stream, completions, recorded, error, cacheVars, pureVars, extVars>>

\* line 348: exit_session returns Err, which every frame above passes on
ExitFails ==
    /\ dpc = "exit"
    /\ dpc' = "failed"
    /\ error' = Some("exit_session")
    /\ UNCHANGED <<depth, input, output, tool_results, output_format,
                   stdout_terminal, stream, completions, recorded, cacheVars, pureVars, extVars>>

NextLoop ==
    \/ Enter
    \/ \E kind \in {"create_client", "before_chat_completion"} : EnterFails(kind)
    \/ \E out \in OutputSamples, results \in ToolBatches : CompletionReturns(out, results)
    \/ CompletionFails
    \/ Record
    \/ RecordFails
    \/ Recurse
    \/ Finish
    \/ ExitSession
    \/ ExitFails

SpecLoop == InitLoop /\ [][NextLoop]_vars

(***************************************************************************)
(* Claims about the tool-call loop.                                        *)
(***************************************************************************)
\* every turn recorded so far came back with tool results
PerpetualTools ==
    \A i \in 1..Len(recorded) : recorded[i].tool_results # <<>>

\* C6: a conversation whose every turn requests tools is stopped by a
\* recursion-limit error: once MaxDepth turns in a row have requested
\* tools, start_directive has ended with that error.
C6_RecursionLimit ==
    (PerpetualTools /\ Len(recorded) = MaxDepth) =>
        (dpc = "failed" /\ error = Some("RecursionLimitExceeded"))

\* C7: the k-th completion call (k >= 2) is issued on the conversation of
\* the call before it extended by exactly one batch, which holds all the
\* tool results of the turn before, in the order they were returned; so
\* the conversation of call k holds one batch per earlier turn, and no call
\* is issued before the turn before it was recorded and folded.
C7_ResultsFoldedOnce ==
    /\ Len(completions) <= Len(recorded) + 1
    /\ dpc \in {"returned", "recorded"} => Len(completions) = depth
    /\ dpc = "recorded" => recorded[Len(recorded)].tool_results = tool_results
    /\ \A k \in 2..Len(completions) :
          LET prev == completions[k - 1].input
              cur == completions[k].input
          IN  /\ recorded[k - 1].input = prev
              /\ recorded[k - 1].tool_results # <<>>
              /\ cur.text = prev.text
              /\ Len(cur.batches) = k - 1
              /\ SubSeq(cur.batches, 1, k - 2) = prev.batches
              /\ cur.batches[k - 1].tool_results = recorded[k - 1].tool_results
              /\ cur.batches[k - 1].text = recorded[k - 1].output

\* a turn returned two tool results, in descending order of their ids, and
\* the next completion call has been issued
C7_Witness ==
    /\ Len(completions) >= 2
    /\ recorded[1].tool_results = <<ToolResult(2), ToolResult(1)>>
    /\ completions[2].input.batches[1].tool_results = <<ToolResult(2), ToolResult(1)>>

Finished == dpc \in {"exit", "done"}

C8_DecideStep ==
    /\ (dpc = "recorded" /\ dpc' # "recorded") =>
          IF tool_results # <<>>
          THEN dpc' = "enter" /\ depth' = depth + 1
          ELSE dpc' = "exit" /\ depth' = depth
    /\ Len(completions') > Len(completions) => dpc = "enter"
    /\ dpc' = "enter" => (dpc = "recorded" \/ dpc = "enter")
    /\ Finished => (completions' = completions /\ recorded' = recorded)

\* C8: start_directive calls itself again exactly when the turn it has
\* just recorded returned tool results; a turn without tool results is
\* recorded through after_chat_completion and is the last: from then on no
\* completion call is issued.
C8_FinishedIsTerminal ==
    /\ [](Finished =>
              /\ Len(recorded) = Len(completions)
              /\ recorded[Len(recorded)].tool_results = <<>>)
    /\ [](\A k \in 1..(Len(completions) - 1) : recorded[k].tool_results # <<>>)
    /\ [][C8_DecideStep]_vars

\* the loop has finished after a turn with tools and a turn without
C8_Witness ==
    /\ dpc = "done"
    /\ Len(completions) = 2
    /\ recorded[1].tool_results # <<>>
    /\ recorded[2].tool_results = <<>>

\* the text a turn hands on, given what the completion call returned
TextAfterConversion(out, format) ==
    IF out = <<>> THEN out
    ELSE CASE format = "Json" -> json_pretty(out)
           [] format = "Yaml" -> yaml_string(out)
           [] format = "Plain" -> strip_markdown(out)
           [] format = "Default" -> out
           [] format = "Code" -> out

C17_TurnStep ==
    /\ (dpc = "returned" /\ dpc' = "recorded") =>
          /\ Len(recorded') = Len(recorded) + 1
          /\ recorded'[Len(recorded')].output =
                 TextAfterConversion(output, output_format)
          /\ output' = TextAfterConversion(output, output_format)
    /\ (dpc = "recorded" /\ dpc' = "enter") =>
          /\ Len(input'.batches) = Len(input.batches) + 1
          /\ input'.batches[Len(input'.batches)].text = recorded[Len(recorded)].output
    /\ Len(recorded') > Len(recorded) => dpc = "returned"

\* C17: in every turn the text given to after_chat_completion, and folded
\* into the conversation of the next turn when tool results came back, is
\* the text after the format conversion: the JSON or YAML wrapper or the
\* markdown-stripped text when the output is not empty and the format is
\* Json, Yaml or Plain, and the raw output otherwise.
C17_ConvertedTextRecorded ==
    /\ [](\A k \in 2..Len(completions) :
              completions[k].input.batches[k - 1].text = recorded[k - 1].output)
    /\ [][C17_TurnStep]_vars

\* a turn with tool results whose markdown output was wrapped as JSON: the
\* wrapper, not the raw text, was recorded and folded into the next turn
C17_Witness ==
    /\ output_format = "Json"
    /\ Len(completions) >= 2
    /\ recorded[1].output =
          json_pretty(Str(<<"*","*","b","*","*"," ","backquote","c","backquote">>))
    /\ recorded[1].output # Str(<<"*","*","b","*","*"," ","backquote","c","backquote">>)
    /\ completions[2].input.batches[1].text = recorded[1].output

(***************************************************************************)
(* SpecRun: run (main.rs 150-302) on a parsed command line.  A field of    *)
(* the command line that is an Option or a Vec in the code is TRUE when it *)
(* is Some or not empty; list stands for the five --list-* flags tested at *)
(* lines 180-205 and has_input for a prompt text or a --file.  A call that *)
(* run awaits and then continues after is two steps, the call and its      *)
(* return.                                                                 *)
(***************************************************************************)
\* the four output format flags
FormatFlags == {"code", "json", "yaml", "plain"}

\* the other fields of Cli that run or main read
OptionFlags ==
    { "sync_models", "refresh_models", "list", "dry_run", "agent",
      "agent_variable", "prompt", "role", "session", "rag", "list_sessions",
      "model", "no_stream", "empty_session", "save_session", "info", "serve",
      "rebuild_rag", "macro_name", "execute", "has_input" }

\* the subsets of S with at most k elements
RECURSIVE SubsetsUpTo(_, _)
SubsetsUpTo(S, k) ==
    IF k = 0 THEN {{}}
    ELSE LET smaller == SubsetsUpTo(S, k - 1)
         IN  smaller \cup {T \cup {f} : T \in smaller, f \in S}

\* command lines with any format flags and at most MaxOptions other fields
CliSamples ==
    { [f \in FormatFlags \cup OptionFlags |-> f \in formats \cup options] :
        formats \in SUBSET FormatFlags,
        options \in SubsetsUpTo(OptionFlags, MaxOptions) }

\* main, lines 125-131
working_mode(c) ==
    IF c.serve THEN "Serve"
    ELSE IF ~c.has_input THEN "Repl"
    ELSE "Cmd"

\* line 272: config.read().working_mode.is_repl()
is_repl == working_mode(cli) = "Repl"

InitRun ==
    /\ InitCache /\ LoopIdle /\ PureIdle /\ ClearIdle /\ ShellIdle
    /\ cli \in CliSamples
    /\ rpc = "format"
    /\ run_format = None
    /\ effects = <<>>
    /\ run_ret = None

\* what no step of run changes
runFrame == <<cli, cleared_at, shellVars, cacheVars, loopVars, pureVars>>

\* lines 154-155: format_flags and the number of them that are set
format_flags(c) == <<c.code, c.json, c.yaml, c.plain>>
format_count(c) == Cardinality({i \in 1..4 : format_flags(c)[i]})

\* lines 159-169: the if / else-if chain
select_output_format(c) ==
    IF c.code THEN "Code"
    ELSE IF c.json THEN "Json"
    ELSE IF c.yaml THEN "Yaml"
    ELSE IF c.plain THEN "Plain"
    ELSE "Default"

\* a run that takes the first flag set without counting them
RunFormat_NoCount ==
    /\ rpc = "format"
    /\ run_format' = Some(select_output_format(cli))
    /\ rpc' = "sync"
    /\ UNCHANGED <<effects, run_ret, runFrame>>

\* lines 153-169: bail on more than one format flag, else choose the format
RunFormat ==
    /\ rpc = "format"
    /\ IF format_count(cli) > 1
       THEN /\ run_ret' = Some(Err("format_flags"))
            /\ rpc' = "done"
            /\ UNCHANGED run_format
       ELSE /\ run_format' = Some(select_output_format(cli))
            /\ rpc' = "sync"
            /\ UNCHANGED run_ret
    /\ UNCHANGED <<effects, runFrame>>

\* run goes on at position next
RunGoesOn(next) ==
    /\ rpc' = next
    /\ UNCHANGED run_ret

\* run returns r
RunReturns(r) ==
    /\ rpc' = "done"
    /\ run_ret' = Some(r)

\* `call()?` made at a position: the call is recorded; on Err run returns
\* it, on Ok run goes on at next
RunTry(call, ok, next) ==
    /\ effects' = Append(effects, call)
    /\ IF ok THEN RunGoesOn(next) ELSE RunReturns(Err(call))

\* no call is made at a position: run goes on at next
RunSkip(ok, next) ==
    /\ ok
    /\ UNCHANGED effects
    /\ RunGoesOn(next)

\* `call().await`: the call is recorded and run is suspended at `at`
RunAwait(call, at) ==
    /\ effects' = Append(effects, call)
    /\ RunGoesOn(at)

\* lines 171-173: with --sync-models Config::sync_models is called
RunSync ==
    /\ rpc = "sync"
    /\ IF cli.sync_models
       THEN RunAwait("sync_models", "await_sync_models")
       ELSE RunSkip(TRUE, "refresh")
    /\ UNCHANGED <<run_format, runFrame>>

\* line 173: run returns what sync_models returns
RunSyncReturns(ok) ==
    /\ rpc = "await_sync_models"
    /\ UNCHANGED effects
    /\ RunReturns(IF ok THEN Ok(<<>>) ELSE Err("sync_models"))
    /\ UNCHANGED <<run_format, runFrame>>

\* lines 176-177: with --refresh-models refresh_client_models is called
RunRefresh ==
    /\ rpc = "refresh"
    /\ IF cli.refresh_models
       THEN RunAwait("refresh_models", "await_refresh_models")
       ELSE RunSkip(TRUE, "list")
    /\ UNCHANGED <<run_format, runFrame>>

\* line 177: run returns what refresh_client_models returns
RunRefreshReturns(ok) ==
    /\ rpc = "await_refresh_models"
    /\ UNCHANGED effects
    /\ RunReturns(IF ok THEN Ok(<<>>) ELSE Err("refresh_models"))
    /\ UNCHANGED <<run_format, runFrame>>

\* lines 180-205: a --list-* flag prints and returns
RunList ==
    /\ rpc = "list"
    /\ IF cli.list
       THEN /\ effects' = Append(effects, "println")
            /\ RunReturns(Ok(<<>>))
       ELSE RunSkip(TRUE, "dry_run")
    /\ UNCHANGED <<run_format, runFrame>>

\* lines 207-209
RunDryRun ==
    /\ rpc = "dry_run"
    /\ effects' = IF cli.dry_run THEN Append(effects, "config.dry_run = true")
                  ELSE effects
    /\ RunGoesOn("agent")
    /\ UNCHANGED <<run_format, runFrame>>

\* lines 211-225: with --agent the agent variables are stored and
\* Config::use_agent is called; without it the else branch is taken
RunAgent ==
    /\ rpc = "agent"
    /\ IF cli.agent
       THEN /\ effects' = effects
                 \o (IF cli.agent_variable
                     THEN <<"config.agent_variables = Some">> ELSE <<>>)
                 \o <<"use_agent">>
            /\ RunGoesOn("await_use_agent")
       ELSE RunSkip(TRUE, "role")
    /\ UNCHANGED <<run_format, runFrame>>

\* lines 225-227: use_agent returns, the agent variables are cleared and
\* then the error, if any, is returned
RunAgentReturns(ok) ==
    /\ rpc = "await_use_agent"
    /\ effects' = Append(effects, "config.agent_variables = None")
    /\ IF ok THEN RunGoesOn("list_sessions") ELSE RunReturns(Err("use_agent"))
    /\ UNCHANGED <<run_format, runFrame>>

\* lines 229-237: the call of the if / else-if chain, if any, is made
RunRole(ok) ==
    /\ rpc = "role"
    /\ LET role_call == IF cli.prompt THEN Some("use_prompt")
                        ELSE IF cli.role THEN Some("use_role")
                        ELSE IF cli.execute THEN Some("use_role(SHELL_ROLE)")
                        ELSE IF cli.code THEN Some("use_role(CODE_ROLE)")
                        ELSE None
       IN  IF IsSome(role_call)
           THEN RunTry(Unwrap(role_call), ok, "session")
           ELSE RunSkip(ok, "session")
    /\ UNCHANGED <<run_format, runFrame>>

\* lines 238-242
RunSession(ok) ==
    /\ rpc = "session"
    /\ IF cli.session
       THEN RunTry("use_session", ok, "rag")
       ELSE RunSkip(ok, "rag")
    /\ UNCHANGED <<run_format, runFrame>>

\* lines 243-244: Config::use_rag is called
RunRag ==
    /\ rpc = "rag"
    /\ IF cli.rag
       THEN RunAwait("use_rag", "await_use_rag")
       ELSE RunSkip(TRUE, "list_sessions")
    /\ UNCHANGED <<run_format, runFrame>>

\* line 244: use_rag returns
RunRagReturns(ok) ==
    /\ rpc = "await_use_rag"
    /\ UNCHANGED effects
    /\ IF ok THEN RunGoesOn("list_sessions") ELSE RunReturns(Err("use_rag"))
    /\ UNCHANGED <<run_format, runFrame>>

\* lines 247-251
RunListSessions ==
    /\ rpc = "list_sessions"
    /\ IF cli.list_sessions
       THEN /\ effects' = Append(effects, "println")
            /\ RunReturns(Ok(<<>>))
       ELSE RunSkip(TRUE, "model")
    /\ UNCHANGED <<run_format, runFrame>>

\* lines 252-254
RunModel(ok) ==
    /\ rpc = "model"
    /\ IF cli.model
       THEN RunTry("set_model", ok, "no_stream")
       ELSE RunSkip(ok, "no_stream")
    /\ UNCHANGED <<run_format, runFrame>>

\* lines 255-257
RunNoStream ==
    /\ rpc = "no_stream"
    /\ effects' = IF cli.no_stream THEN Append(effects, "config.stream = false")
                  ELSE effects
    /\ RunGoesOn("empty_session")
    /\ UNCHANGED <<run_format, runFrame>>

\* lines 258-260
RunEmptySession(ok) ==
    /\ rpc = "empty_session"
    /\ IF cli.empty_session
       THEN RunTry("empty_session", ok, "save_session")
       ELSE RunSkip(ok, "save_session")
    /\ UNCHANGED <<run_format, runFrame>>

\* lines 261-263
RunSaveSession(ok) ==
    /\ rpc = "save_session"
    /\ IF cli.save_session
       THEN RunTry("set_save_session_this_time", ok, "info")
       ELSE RunSkip(ok, "info")
    /\ UNCHANGED <<run_format, runFrame>>

\* lines 264-268: --info reads the configuration, prints it and returns
RunInfo(ok) ==
    /\ rpc = "info"
    /\ IF cli.info
       THEN IF ok
            THEN /\ effects' = effects \o <<"info", "println">>
                 /\ RunReturns(Ok(<<>>))
            ELSE /\ effects' = Append(effects, "info")
                 /\ RunReturns(Err("info"))
       ELSE RunSkip(ok, "serve")
    /\ UNCHANGED <<run_format, runFrame>>

\* lines 269-270: with --serve serve::run is called
RunServe ==
    /\ rpc = "serve"
    /\ IF cli.serve
       THEN RunAwait("serve", "await_serve")
       ELSE RunSkip(TRUE, "rebuild_rag")
    /\ UNCHANGED <<run_format, runFrame>>

\* line 270: run returns what serve::run returns
RunServeReturns(ok) ==
    /\ rpc = "await_serve"
    /\ UNCHANGED effects
    /\ RunReturns(IF ok THEN Ok(<<>>) ELSE Err("serve"))
    /\ UNCHANGED <<run_format, runFrame>>

\* lines 272-274: Config::rebuild_rag is called
RunRebuildRag ==
    /\ rpc = "rebuild_rag"
    /\ IF cli.rebuild_rag
       THEN RunAwait("rebuild_rag", "await_rebuild_rag")
       ELSE RunSkip(TRUE, "macro")
    /\ UNCHANGED <<run_format, runFrame>>

\* lines 274-278: rebuild_rag returns; in the REPL mode run returns
RunRebuildRagReturns(ok) ==
    /\ rpc = "await_rebuild_rag"
    /\ UNCHANGED effects
    /\ IF ~ok THEN RunReturns(Err("rebuild_rag"))
       ELSE IF is_repl THEN RunReturns(Ok(<<>>))
       ELSE RunGoesOn("macro")
    /\ UNCHANGED <<run_format, runFrame>>

\* lines 279-280: macro_execute is called
RunMacro ==
    /\ rpc = "macro"
    /\ IF cli.macro_name
       THEN RunAwait("macro_execute", "await_macro_execute")
       ELSE RunSkip(TRUE, "execute")
    /\ UNCHANGED <<run_format, runFrame>>

\* lines 280-281: macro_execute returns and so does run
RunMacroReturns(ok) ==
    /\ rpc = "await_macro_execute"
    /\ UNCHANGED effects
    /\ RunReturns(IF ok THEN Ok(<<>>) ELSE Err("macro_execute"))
    /\ UNCHANGED <<run_format, runFrame>>

\* lines 283-284: with --execute outside the REPL mode create_input is called
RunExecute ==
    /\ rpc = "execute"
    /\ IF cli.execute /\ ~is_repl
       THEN RunAwait("create_input", "await_execute_input")
       ELSE RunSkip(TRUE, "prelude")
    /\ UNCHANGED <<run_format, runFrame>>

\* lines 284-285: create_input returns; shell_execute is called on the input
RunExecuteInputReturns(ok) ==
    /\ rpc = "await_execute_input"
    /\ IF ok
       THEN RunAwait("shell_execute", "await_shell_execute")
       ELSE /\ UNCHANGED effects
            /\ RunReturns(Err("create_input"))
    /\ UNCHANGED <<run_format, runFrame>>

\* lines 285-286: shell_execute returns and so does run
RunShellExecuteReturns(ok) ==
    /\ rpc = "await_shell_execute"
    /\ UNCHANGED effects
    /\ RunReturns(IF ok THEN Ok(<<>>) ELSE Err("shell_execute"))
    /\ UNCHANGED <<run_format, runFrame>>

\* line 288
RunPrelude(ok) ==
    /\ rpc = "prelude"
    /\ RunTry("apply_prelude", ok, IF is_repl THEN "repl" ELSE "directive")
    /\ UNCHANGED <<run_format, runFrame>>

\* line 291: create_input is called
RunDirective ==
    /\ rpc = "directive"
    /\ RunAwait("create_input", "await_directive_input")
    /\ UNCHANGED <<run_format, runFrame>>

\* lines 291-292: create_input returns; use_embeddings is called
RunDirectiveInputReturns(ok) ==
    /\ rpc = "await_directive_input"
    /\ IF ok
       THEN RunAwait("use_embeddings", "await_use_embeddings")
       ELSE /\ UNCHANGED effects
            /\ RunReturns(Err("create_input"))
    /\ UNCHANGED <<run_format, runFrame>>

\* lines 292-293: use_embeddings returns; start_directive is called with
\* the chosen output format
RunEmbeddingsReturns(ok) ==
    /\ rpc = "await_use_embeddings"
    /\ IF ok
       THEN RunAwait("start_directive", "await_start_directive")
       ELSE /\ UNCHANGED effects
            /\ RunReturns(Err("use_embeddings"))
    /\ UNCHANGED <<run_format, runFrame>>

\* line 293: run returns what start_directive returns
RunDirectiveReturns(ok) ==
    /\ rpc = "await_start_directive"
    /\ UNCHANGED effects
    /\ RunReturns(IF ok THEN Ok(<<>>) ELSE Err("start_directive"))
    /\ UNCHANGED <<run_format, runFrame>>

\* lines 295-299: without a terminal on stdout run bails, else
\* start_interactive is called
RunRepl(is_stdout_terminal) ==
    /\ rpc = "repl"
    /\ IF ~is_stdout_terminal
       THEN /\ UNCHANGED effects
            /\ RunReturns(Err("No TTY for REPL"))
       ELSE RunAwait("start_interactive", "await_start_interactive")
    /\ UNCHANGED <<run_format, runFrame>>

\* line 299: run returns what start_interactive returns
RunInteractiveReturns(ok) ==
    /\ rpc = "await_start_interactive"
    /\ UNCHANGED effects
    /\ RunReturns(IF ok THEN Ok(<<>>) ELSE Err("start_interactive"))
    /\ UNCHANGED <<run_format, runFrame>>

NextRun ==
    \/ RunFormat
    \/ RunSync
    \/ \E ok \in BOOLEAN : RunSyncReturns(ok)
    \/ RunRefresh
    \/ \E ok \in BOOLEAN : RunRefreshReturns(ok)
    \/ RunList
    \/ RunDryRun
    \/ RunAgent
    \/ \E ok \in BOOLEAN : RunAgentReturns(ok)
    \/ \E ok \in BOOLEAN : RunRole(ok)
    \/ \E ok \in BOOLEAN : RunSession(ok)
    \/ RunRag
    \/ \E ok \in BOOLEAN : RunRagReturns(ok)
    \/ RunListSessions
    \/ \E ok \in BOOLEAN : RunModel(ok)
    \/ RunNoStream
    \/ \E ok \in BOOLEAN : RunEmptySession(ok)
    \/ \E ok \in BOOLEAN : RunSaveSession(ok)
    \/ \E ok \in BOOLEAN : RunInfo(ok)
    \/ RunServe
    \/ \E ok \in BOOLEAN : RunServeReturns(ok)
    \/ RunRebuildRag
    \/ \E ok \in BOOLEAN : RunRebuildRagReturns(ok)
    \/ RunMacro
    \/ \E ok \in BOOLEAN : RunMacroReturns(ok)
    \/ RunExecute
    \/ \E ok \in BOOLEAN : RunExecuteInputReturns(ok)
    \/ \E ok \in BOOLEAN : RunShellExecuteReturns(ok)
    \/ \E ok \in BOOLEAN : RunPrelude(ok)
    \/ RunDirective
    \/ \E ok \in BOOLEAN : RunDirectiveInputReturns(ok)
    \/ \E ok \in BOOLEAN : RunEmbeddingsReturns(ok)
    \/ \E ok \in BOOLEAN : RunDirectiveReturns(ok)
    \/ \E is_stdout_terminal \in BOOLEAN : RunRepl(is_stdout_terminal)
    \/ \E ok \in BOOLEAN : RunInteractiveReturns(ok)

SpecRun == InitRun /\ [][NextRun]_vars

\* the format flags that are set
FlagsSet == {f \in FormatFlags : cli[f]}

FormatOfFlag == ("code" :> "Code") @@ ("json" :> "Json")
                @@ ("yaml" :> "Yaml") @@ ("plain" :> "Plain")

\* C14: with more than one format flag set, run returns an error and does
\* nothing else: no sync, no refresh, no configuration write, no completion
\* call; with one flag set the format is that flag's and with none Default.
C14_ConflictingFlags ==
    rpc \notin {"off", "format"} =>
        IF Cardinality(FlagsSet) > 1
        THEN /\ rpc = "done"
             /\ run_ret # None /\ Unwrap(run_ret).tag = "Err"
             /\ effects = <<>>
             /\ run_format = None
        ELSE /\ \A f \in FlagsSet : run_format = Some(FormatOfFlag[f])
             /\ FlagsSet = {} => run_format = Some("Default")

\* --json and --plain together with --sync-models: run has returned the error
\* and nothing was synced
C14_Witness ==
    /\ cli.json /\ cli.plain /\ ~cli.code /\ ~cli.yaml
    /\ cli.sync_models
    /\ rpc = "done"
    /\ run_ret = Some(Err("format_flags"))
    /\ effects = <<>>

(***************************************************************************)
(* SpecShell: shell_execute (main.rs 357-443).  A frame that is revised    *)
(* returns what the frame it calls returns, so the stack is its depth.     *)
(***************************************************************************)
\* what the completion call may generate: nothing, or a command
EvalSamples == { <<>>, Str(<<"l","s">>) }

\* what the user may type as a revision
RevisionSamples == { <<>>, Str(<<"-","l">>) }

InitShell ==
    /\ InitCache /\ PureIdle /\ ClearIdle /\ RunIdle
    /\ dpc = "off" /\ depth = 0 /\ input = <<>> /\ output = <<>>
    /\ tool_results = <<>> /\ output_format = "Default" /\ stream = TRUE
    /\ completions = <<>> /\ recorded = <<>> /\ error = None
    /\ stdout_terminal \in BOOLEAN
    /\ dry_run \in BOOLEAN
    /\ spc = "enter"
    /\ sdepth = 1
    /\ shell_input = Str(<<"l","i","s","t">>)
    /\ eval_str = <<>>
    /\ answer_char = None
    /\ executed = <<>>
    /\ events = <<>>
    /\ shell_ret = None

Event(call, text) == [call |-> call, text |-> text]

\* lines 364-367: the client is created, before_chat_completion runs and the
\* completion call is issued on the frame's input
ShellEnter ==
    /\ spc = "enter"
    /\ events' = Append(events, Event("call_chat_completions", shell_input))
    /\ spc' = "awaiting"
    /\ UNCHANGED <<sdepth, shell_input, eval_str, dry_run, answer_char, executed, shell_ret,
                   cleared_at, runVars, cacheVars, pureVars, dpc, depth, input, output,
                   tool_results, output_format, stdout_terminal, stream, completions,
                   recorded, error>>

\* lines 364-365: create_client or before_chat_completion returns Err
ShellEnterFails(kind) ==
    /\ spc = "enter"
    /\ shell_ret' = Some(Err(kind))
    /\ spc' = "done"
    /\ UNCHANGED <<sdepth, shell_input, eval_str, dry_run, answer_char, executed, events,
                   cleared_at, runVars, cacheVars, pureVars, dpc, depth, input, output,
                   tool_results, output_format, stdout_terminal, stream, completions,
                   recorded, error>>

\* lines 366-367: the completion call returns the generated command
ShellCompletionReturns(cmd) ==
    /\ spc = "awaiting"
    /\ eval_str' = cmd
    /\ spc' = "returned"
    /\ UNCHANGED <<sdepth, shell_input, dry_run, answer_char, executed, events, shell_ret,
                   cleared_at, runVars, cacheVars, pureVars, dpc, depth, input, output,
                   tool_results, output_format, stdout_terminal, stream, completions,
                   recorded, error>>

\* line 367: the completion call returns Err
ShellCompletionFails ==
    /\ spc = "awaiting"
    /\ shell_ret' = Some(Err("completion"))
    /\ spc' = "done"
    /\ UNCHANGED <<sdepth, shell_input, eval_str, dry_run, answer_char, executed, events,
                   cleared_at, runVars, cacheVars, pureVars, dpc, depth, input, output,
                   tool_results, output_format, stdout_terminal, stream, completions,
                   recorded, error>>

\* a frame that goes to the prompt although dry_run is set
ShellRecord_IgnoresDryRun(ok) ==
    /\ spc = "returned"
    /\ ok
    /\ LET noted == Append(events, Event("after_chat_completion", eval_str))
       IN  IF eval_str = <<>>
           THEN /\ events' = noted
                /\ shell_ret' = Some(Err("No command generated"))
                /\ spc' = "done"
           ELSE IF stdout_terminal
           THEN /\ events' = Append(noted, Event("println", eval_str))
                /\ spc' = "prompt"
                /\ UNCHANGED shell_ret
           ELSE /\ events' = Append(noted, Event("println", eval_str))
                /\ shell_ret' = Some(Ok(<<>>))
                /\ spc' = "done"
    /\ UNCHANGED <<sdepth, shell_input, eval_str, dry_run, answer_char, executed,
                   cleared_at, runVars, cacheVars, pureVars, dpc, depth, input, output,
                   tool_results, output_format, stdout_terminal, stream, completions,
                   recorded, error>>

\* lines 369-387, 439-442: after_chat_completion, then the empty command is
\* an error, dry_run prints and returns, a terminal goes to the prompt and
\* anything else prints the command and returns
ShellRecord(ok) ==
    /\ spc = "returned"
    /\ ok \/ (eval_str # <<>> /\ dry_run)
    /\ LET noted == Append(events, Event("after_chat_completion", eval_str))
       IN  IF eval_str = <<>>
           THEN /\ events' = noted
                /\ shell_ret' = Some(Err("No command generated"))
                /\ spc' = "done"
           ELSE IF dry_run
           THEN /\ events' = Append(noted, Event("print_markdown", eval_str))
                /\ shell_ret' = Some(IF ok THEN Ok(<<>>) ELSE Err("print_markdown"))
                /\ spc' = "done"
           ELSE IF stdout_terminal
           THEN /\ events' = Append(noted, Event("println", eval_str))
                /\ spc' = "prompt"
                /\ UNCHANGED shell_ret
           ELSE /\ events' = Append(noted, Event("println", eval_str))
                /\ shell_ret' = Some(Ok(<<>>))
                /\ spc' = "done"
    /\ UNCHANGED <<sdepth, shell_input, eval_str, dry_run, answer_char, executed,
                   cleared_at, runVars, cacheVars, pureVars, dpc, depth, input, output,
                   tool_results, output_format, stdout_terminal, stream, completions,
                   recorded, error>>

\* lines 369-371: after_chat_completion returns Err
ShellRecordFails ==
    /\ spc = "returned"
    /\ shell_ret' = Some(Err("after_chat_completion"))
    /\ spc' = "done"
    /\ UNCHANGED <<sdepth, shell_input, eval_str, dry_run, answer_char, executed, events,
                   cleared_at, runVars, cacheVars, pureVars, dpc, depth, input, output,
                   tool_results, output_format, stdout_terminal, stream, completions,
                   recorded, error>>

\* lines 390-391: read_single_key returns Err
ShellKeyFails ==
    /\ spc = "prompt"
    /\ shell_ret' = Some(Err("read_single_key"))
    /\ spc' = "done"
    /\ UNCHANGED <<sdepth, shell_input, eval_str, dry_run, answer_char, executed, events,
                   cleared_at, runVars, cacheVars, pureVars, dpc, depth, input, output,
                   tool_results, output_format, stdout_terminal, stream, completions,
                   recorded, error>>

\* lines 394-401: 'e': the command is run, the history is appended when it
\* exited with 0 and save_shell_history is set, and the process exits
ShellExecute(code, save_shell_history) ==
    /\ spc = "prompt"
    /\ answer_char' = Some(Ord["e"])
    /\ executed' = Append(executed, [command |-> eval_str, code |-> code])
    /\ events' = IF code = 0 /\ save_shell_history
                 THEN Append(events, Event("append_to_shell_history", eval_str))
                 ELSE events
    /\ spc' = "exited"
    /\ UNCHANGED <<sdepth, shell_input, eval_str, dry_run, shell_ret,
                   cleared_at, runVars, cacheVars, pureVars, dpc, depth, input, output,
                   tool_results, output_format, stdout_terminal, stream, completions,
                   recorded, error>>

\* line 396: 'e': run_command returns Err: the shell could not be started
ShellExecuteFails ==
    /\ spc = "prompt"
    /\ answer_char' = Some(Ord["e"])
    /\ shell_ret' = Some(Err("run_command"))
    /\ spc' = "done"
    /\ UNCHANGED <<sdepth, shell_input, eval_str, dry_run, executed, events,
                   cleared_at, runVars, cacheVars, pureVars, dpc, depth, input, output,
                   tool_results, output_format, stdout_terminal, stream, completions,
                   recorded, error>>

\* lines 402-407: 'r': the revision is appended to the text and
\* shell_execute is called on the revised input.  The model follows the
\* recursion to MaxRevisions revisions.
ShellRevise(revision) ==
    /\ spc = "prompt"
    /\ sdepth <= MaxRevisions
    /\ answer_char' = Some(Ord["r"])
    /\ shell_input' = shell_input \o <<LF>> \o revision
    /\ sdepth' = sdepth + 1
    /\ eval_str' = <<>>
    /\ spc' = "enter"
    /\ UNCHANGED <<dry_run, executed, events, shell_ret,
                   cleared_at, runVars, cacheVars, pureVars, dpc, depth, input, output,
                   tool_results, output_format, stdout_terminal, stream, completions,
                   recorded, error>>

\* line 403: 'r': the revision prompt returns Err
ShellReviseFails ==
    /\ spc = "prompt"
    /\ answer_char' = Some(Ord["r"])
    /\ shell_ret' = Some(Err("revision_prompt"))
    /\ spc' = "done"
    /\ UNCHANGED <<sdepth, shell_input, eval_str, dry_run, executed, events,
                   cleared_at, runVars, cacheVars, pureVars, dpc, depth, input, output,
                   tool_results, output_format, stdout_terminal, stream, completions,
                   recorded, error>>

\* lines 408-427: 'd': a completion call with the explain role is issued on
\* the command.  The model follows MaxExplains explanations.
ShellDescribe ==
    /\ spc = "prompt"
    /\ Cardinality({i \in 1..Len(events) : events[i].call = "explain"}) < MaxExplains
    /\ answer_char' = Some(Ord["d"])
    /\ events' = Append(events, Event("explain", eval_str))
    /\ spc' = "explaining"
    /\ UNCHANGED <<sdepth, shell_input, eval_str, dry_run, executed, shell_ret,
                   cleared_at, runVars, cacheVars, pureVars, dpc, depth, input, output,
                   tool_results, output_format, stdout_terminal, stream, completions,
                   recorded, error>>

\* line 409: 'd': retrieve_role returns Err
ShellDescribeFails ==
    /\ spc = "prompt"
    /\ answer_char' = Some(Ord["d"])
    /\ shell_ret' = Some(Err("retrieve_role"))
    /\ spc' = "done"
    /\ UNCHANGED <<sdepth, shell_input, eval_str, dry_run, executed, events,
                   cleared_at, runVars, cacheVars, pureVars, dpc, depth, input, output,
                   tool_results, output_format, stdout_terminal, stream, completions,
                   recorded, error>>

\* lines 428-429, 388: the explanation was printed; continue: the command
\* is printed and the key is read again
ExplainReturns ==
    /\ spc = "explaining"
    /\ events' = Append(events, Event("println", eval_str))
    /\ spc' = "prompt"
    /\ UNCHANGED <<sdepth, shell_input, eval_str, dry_run, answer_char, executed, shell_ret,
                   cleared_at, runVars, cacheVars, pureVars, dpc, depth, input, output,
                   tool_results, output_format, stdout_terminal, stream, completions,
                   recorded, error>>

\* lines 417, 426: the explain call returns Err
ExplainFails ==
    /\ spc = "explaining"
    /\ shell_ret' = Some(Err("completion"))
    /\ spc' = "done"
    /\ UNCHANGED <<sdepth, shell_input, eval_str, dry_run, answer_char, executed, events,
                   cleared_at, runVars, cacheVars, pureVars, dpc, depth, input, output,
                   tool_results, output_format, stdout_terminal, stream, completions,
                   recorded, error>>

\* lines 431-434, 437, 442: 'c': the command is copied to the clipboard
ShellCopy(ok) ==
    /\ spc = "prompt"
    /\ answer_char' = Some(Ord["c"])
    /\ events' = IF ok THEN Append(events, Event("set_text", eval_str)) ELSE events
    /\ shell_ret' = Some(IF ok THEN Ok(<<>>) ELSE Err("set_text"))
    /\ spc' = "done"
    /\ UNCHANGED <<sdepth, shell_input, eval_str, dry_run, executed,
                   cleared_at, runVars, cacheVars, pureVars, dpc, depth, input, output,
                   tool_results, output_format, stdout_terminal, stream, completions,
                   recorded, error>>

\* lines 435, 437, 442: 'q': nothing is done
ShellQuit ==
    /\ spc = "prompt"
    /\ answer_char' = Some(Ord["q"])
    /\ shell_ret' = Some(Ok(<<>>))
    /\ spc' = "done"
    /\ UNCHANGED <<sdepth, shell_input, eval_str, dry_run, executed, events,
                   cleared_at, runVars, cacheVars, pureVars, dpc, depth, input, output,
                   tool_results, output_format, stdout_terminal, stream, completions,
                   recorded, error>>

NextShell ==
    \/ ShellEnter
    \/ \E kind \in {"create_client", "before_chat_completion"} : ShellEnterFails(kind)
    \/ \E cmd \in EvalSamples : ShellCompletionReturns(cmd)
    \/ ShellCompletionFails
    \/ \E ok \in BOOLEAN : ShellRecord(ok)
    \/ ShellRecordFails
    \/ ShellKeyFails
    \/ \E code \in {0, 1}, save \in BOOLEAN : ShellExecute(code, save)
    \/ ShellExecuteFails
    \/ \E revision \in RevisionSamples : ShellRevise(revision)
    \/ ShellReviseFails
    \/ ShellDescribe
    \/ ShellDescribeFails
    \/ ExplainReturns
    \/ ExplainFails
    \/ \E ok \in BOOLEAN : ShellCopy(ok)
    \/ ShellQuit

SpecShell == InitShell /\ [][NextShell]_vars

C18_ShellStep ==
    /\ executed' # executed =>
          /\ spc = "prompt" /\ spc' = "exited"
          /\ answer_char' = Some(Ord["e"])
          /\ eval_str # <<>> /\ ~dry_run /\ stdout_terminal
          /\ Len(executed') = Len(executed) + 1
          /\ executed'[Len(executed')].command = eval_str
    /\ (spc = "prompt" /\ spc' = "enter") =>
          /\ answer_char' = Some(Ord["r"])
          /\ sdepth' = sdepth + 1
          /\ \E revision \in RevisionSamples :
                shell_input' = shell_input \o <<LF>> \o revision
          /\ executed' = executed
    /\ (spc # "explaining" /\ spc' = "explaining") =>
          spc = "prompt" /\ answer_char' = Some(Ord["d"])
    /\ (spc = "explaining" /\ spc' \notin {"explaining", "done"}) =>
          /\ spc' = "prompt"
          /\ eval_str' = eval_str /\ shell_input' = shell_input
          /\ sdepth' = sdepth /\ executed' = executed
    /\ spc' = "prompt" => spc \in {"returned", "explaining", "prompt"}

\* C18: a command is run only when it is not empty, dry_run is off, stdout is
\* a terminal and the answer is 'e', and then it is the generated command;
\* no command is run on any other path: the empty command is an error raised
\* after after_chat_completion, dry_run and a stdout that is no terminal never
\* reach the prompt, and the answers r, d, c, q run nothing, where r restarts
\* shell_execute on the text with the revision appended and d comes back to
\* the same prompt.
C18_RunOnlyOnExecute ==
    /\ [](executed # <<>> =>
             /\ Len(executed) = 1
             /\ spc = "exited"
             /\ answer_char = Some(Ord["e"])
             /\ eval_str # <<>> /\ ~dry_run /\ stdout_terminal
             /\ executed[1].command = eval_str)
    /\ [](shell_ret = Some(Err("No command generated")) =>
             /\ eval_str = <<>>
             /\ events[Len(events)] = Event("after_chat_completion", <<>>))
    /\ []((dry_run \/ ~stdout_terminal) => spc \notin {"prompt", "explaining", "exited"})
    /\ [](spc = "prompt" => eval_str # <<>>)
    /\ [][C18_ShellStep]_vars

\* the command was revised once, described once and then executed
C18_Witness ==
    /\ spc = "exited"
    /\ sdepth = 2
    /\ shell_input = Str(<<"l","i","s","t">>) \o <<LF>> \o Str(<<"-","l">>)
    /\ \E i \in 1..Len(events) : events[i].call = "explain"
    /\ executed = <<[command |-> Str(<<"l","s">>), code |-> 0]>>
    /\ events[Len(events)].call = "append_to_shell_history"

====
